---- MODULE Spec2Model ----
(***************************************************************************)
(* Lifecycle engine of the rocket framework: capsules, dispatchers,        *)
(* loopers, datasets, the checkpointer and the launcher, with the          *)
(* accelerator's registry of stateful objects and the attributes buffer.   *)
(* Handlers are operators on a record st = [caps, accel, attrs, fs, log,   *)
(* err]; an exception is st.err # NoErr and cuts every later step short.   *)
(***************************************************************************)
EXTENDS Integers, Sequences, FiniteSets, TLC

VARIABLES
    args,    \* the arguments of the script that builds and runs the pipeline
    caps,    \* the capsule objects: unit id -> record of its fields
    accel,   \* the Accelerator: _custom_objects, _dataloaders, is_main_process
    attrs,   \* the Attributes buffer handed to every handler
    fs,      \* checkpoint directories: iteration index -> saved states
    log,     \* history of handler calls and of their effects
    err,     \* exception that reached the caller, NoErr if none
    pc       \* position of the caller: Launcher.launch or a direct user

vars == <<args, caps, accel, attrs, fs, log, err, pc>>

-----------------------------------------------------------------------------
(* Bounds of the explored inputs *)

MaxEpochs == 3
MaxRepeats == 2
MaxTotal == 2
MaxRunEvery == 2
MaxSaveEvery == 3

-----------------------------------------------------------------------------
(* Python values *)

\* an optional value: None or a one-element tuple holding the value
None == <<>>
Some(x) == <<x>>
Val(o) == o[1]

NoErr == "none"

Units == 0 .. 5
Root == 0
\* caller id of a handler invoked from outside the pipeline
User == -1
\* objects registered for checkpointing by somebody else than the pipeline
Foreign == {100, 101}

SETUP == "setup"
DESTROY == "destroy"
SET == "set"
RESET == "reset"
LAUNCH == "launch"
Events == {SETUP, DESTROY, SET, RESET, LAUNCH}

RECURSIVE Reverse(_)
Reverse(s) == IF s = <<>> THEN <<>> ELSE Append(Reverse(Tail(s)), Head(s))

RECURSIVE SumSeq(_)
SumSeq(s) == IF s = <<>> THEN 0 ELSE Head(s) + SumSeq(Tail(s))

Range(s) == {s[i] : i \in DOMAIN s}

-----------------------------------------------------------------------------
(* Construction *)

\* an insertion step that sorts in ascending key order
RECURSIVE InsertAscending(_, _, _)
InsertAscending(x, s, key) ==
    IF s = <<>> THEN <<x>>
    ELSE IF key[Head(s)] <= key[x]
         THEN <<Head(s)>> \o InsertAscending(x, Tail(s), key)
         ELSE <<x>> \o s

\* insertion step of a descending sort that puts an element before those of
\* equal key, as reversing an ascending sort would
RECURSIVE InsertDescendingBefore(_, _, _)
InsertDescendingBefore(x, s, key) ==
    IF s = <<>> THEN <<x>>
    ELSE IF key[Head(s)] > key[x]
         THEN <<Head(s)>> \o InsertDescendingBefore(x, Tail(s), key)
         ELSE <<x>> \o s

\* insertion step of a stable sort in descending key order
RECURSIVE InsertDescending(_, _, _)
InsertDescending(x, s, key) ==
    IF s = <<>> THEN <<x>>
    ELSE IF key[Head(s)] >= key[x]
         THEN <<Head(s)>> \o InsertDescending(x, Tail(s), key)
         ELSE <<x>> \o s

\* sorted(capsules, key=attrgetter("_priority"), reverse=True)
RECURSIVE SortedCapsules(_, _)
SortedCapsules(s, key) ==
    IF s = <<>> THEN <<>>
    ELSE InsertDescending(s[Len(s)],
                          SortedCapsules(SubSeq(s, 1, Len(s) - 1), key), key)

\* Capsule.__init__
NewCapsule(k, statefull, priority) ==
    [kind |-> k, priority |-> priority, statefull |-> statefull,
     accelerator |-> FALSE]

\* Dispatcher.__init__
NewDispatcher(k, capsules, priority, key) ==
    [NewCapsule(k, FALSE, priority) EXCEPT !.kind = k]
    @@ [capsules |-> SortedCapsules(capsules, key)]

\* repeats or None
OrNone(repeats) == IF repeats = None \/ repeats = Some(0) THEN None ELSE repeats

\* Looper.__init__
NewLooper(capsules, tag, repeats, run_every, statefull, priority, key) ==
    [NewDispatcher("Looper", capsules, priority, key)
        EXCEPT !.statefull = statefull]
    @@ [repeats |-> None, user_defined_repeats |-> OrNone(repeats),
        run_every |-> run_every, iter_idx |-> 0, tag |-> tag]

\* Dataset.__init__
NewDataset(dataset, statefull, priority) ==
    NewCapsule("Dataset", statefull, priority)
    @@ [dataset |-> dataset, dataloader |-> None, active_dataloader |-> None,
        iterator |-> None, batch_idx |-> 0, total |-> 0]

\* save_every or -1
OrMinusOne(save_every) ==
    IF save_every = None \/ save_every = Some(0) THEN -1 ELSE Val(save_every)

\* Checkpointer.__init__: the fields its body assigns. (The call it makes to
\* Capsule.__init__ passes accelerator=, a keyword Capsule.__init__ does not
\* have; the handlers are modelled for a checkpointer whose base class
\* constructor was reached with statefull and priority.)
NewCheckpointer(save_every, overwrite, statefull, priority) ==
    NewCapsule("Checkpointer", statefull, priority)
    @@ [save_every |-> OrMinusOne(save_every), resume |-> None,
        strict |-> TRUE, overwrite |-> overwrite, iter_idx |-> 0,
        num_procs |-> 1, num_nodes |-> 1]

\* Launcher.__init__
NewLauncher(capsules, versioning, num_procs, num_nodes, num_epochs, statefull, key) ==
    [NewDispatcher("Launcher", capsules, 1000, key)
        EXCEPT !.statefull = statefull]
    @@ [num_epochs |-> num_epochs, epoch_idx |-> 0, num_procs |-> num_procs,
        num_nodes |-> num_nodes, experiment_versioning |-> versioning,
        resume_from |-> None, load_capsules |-> TRUE]

\* the classes of the capsules
Kinds == {"Capsule", "Dispatcher", "Looper", "Dataset", "Checkpointer",
          "Launcher"}

\* Dispatcher.guard: the exception it raises on the children given, if any
DispatcherGuard(capsules, kind) ==
    IF \E i \in DOMAIN capsules : kind[capsules[i]] \notin Kinds
    THEN "ValueError" ELSE NoErr

\* a guard of the looper that checks no more than that of the dispatcher
LooperGuardOff(capsules, kind) == DispatcherGuard(capsules, kind)

\* Looper.guard: the exception it raises on the children given, if any
LooperGuard(capsules, kind) ==
    IF DispatcherGuard(capsules, kind) # NoErr
    THEN DispatcherGuard(capsules, kind)
    ELSE IF \E i \in DOMAIN capsules : kind[capsules[i]] = "Looper"
         THEN "NestedLoopError" ELSE NoErr

\* self.guard(capsules) in the constructor of unit u
guard(u, a) ==
    CASE a.kind[u] = "Looper" -> LooperGuard(a.given[u], a.kind)
      [] a.kind[u] \in {"Dispatcher", "Launcher"} ->
            DispatcherGuard(a.given[u], a.kind)
      [] OTHER -> NoErr

\* the order in which the script builds the units of the tree under u: the
\* list of children is evaluated, from left to right, before the
\* constructor of the parent is called
RECURSIVE BuildOrder(_, _)
RECURSIVE BuildOrderAll(_, _, _)
BuildOrder(u, a) ==
    IF u \in DOMAIN a.given
    THEN Append(BuildOrderAll(a.given[u], 1, a), u)
    ELSE <<u>>
BuildOrderAll(capsules, i, a) ==
    IF i > Len(capsules) THEN <<>>
    ELSE BuildOrder(capsules[i], a) \o BuildOrderAll(capsules, i + 1, a)

\* the positions in the build order at which a constructor raises
Rejected(a) ==
    {i \in DOMAIN BuildOrder(Root, a) : guard(BuildOrder(Root, a)[i], a) # NoErr}

\* the first of them
FirstRejected(a) == CHOOSE i \in Rejected(a) : \A j \in Rejected(a) : i <= j

\* the exception that ends the construction of the pipeline, if any
ConstructionError(a) ==
    IF Rejected(a) = {} THEN NoErr
    ELSE guard(BuildOrder(Root, a)[FirstRejected(a)], a)

\* the units whose constructors have returned
BuiltUnits(a) ==
    IF Rejected(a) = {} THEN Units
    ELSE {BuildOrder(Root, a)[i] : i \in 1 .. FirstRejected(a) - 1}

\* a unit whose constructor was not called or has raised
NotBuilt == [kind |-> "NotBuilt"]

\* the object built for unit u from the constructor arguments a
Construct(u, a) ==
    CASE a.kind[u] = "Capsule" ->
            NewCapsule("Capsule", a.statefull[u], a.priority[u])
      [] a.kind[u] = "Dispatcher" ->
            NewDispatcher("Dispatcher", a.given[u], a.priority[u], a.priority)
      [] a.kind[u] = "Looper" ->
            NewLooper(a.given[u], u, a.repeats[u], a.run_every[u],
                      a.statefull[u], a.priority[u], a.priority)
      [] a.kind[u] = "Dataset" ->
            NewDataset([id |-> a.dataset[u], len |-> a.dlen[a.dataset[u]]],
                       a.statefull[u], a.priority[u])
      [] a.kind[u] = "Checkpointer" ->
            NewCheckpointer(a.save_every, a.overwrite, a.statefull[u],
                            a.priority[u])
      [] a.kind[u] = "Launcher" ->
            NewLauncher(a.given[u], a.versioning, a.num_procs, a.num_nodes,
                        a.num_epochs, a.statefull[u], a.priority)

\* the objects the script has built from the constructor arguments a
Build(a) ==
    [u \in Units |-> IF u \in BuiltUnits(a) THEN Construct(u, a) ELSE NotBuilt]

IsDispatcher(c) == c.kind \in {"Dispatcher", "Looper", "Launcher"}

-----------------------------------------------------------------------------
(* The state handed through the handlers, and its history *)

Ok(st) == st.err = NoErr

Entry(t, ev, u, by, x) == [t |-> t, ev |-> ev, u |-> u, by |-> by, x |-> x]

Note(st, e) == [st EXCEPT !.log = Append(@, e)]

\* raise an exception in a handler of unit u
Raise(st, u, name) ==
    [Note(st, Entry("raise", name, u, u, 0)) EXCEPT !.err = name]

\* the index a unit persists, recorded when its handlers start and return
Index(u, st) ==
    LET c == st.caps[u] IN
    CASE c.kind \in {"Looper", "Checkpointer"} -> c.iter_idx
      [] c.kind = "Dataset" -> c.batch_idx
      [] c.kind = "Launcher" -> c.epoch_idx
      [] OTHER -> 0

-----------------------------------------------------------------------------
(* Capsule *)

\* a check_accelerator that accepts a unit without an accelerator
check_acceleratorNever(u, st) == st

\* Capsule.check_accelerator
check_accelerator(u, st) ==
    IF st.caps[u].accelerator THEN st
    ELSE Raise(st, u, "ContextUnboundError")

\* accelerator.register_for_checkpointing(self)
register_for_checkpointing(u, st) ==
    Note([st EXCEPT !.accel.custom_objects = Append(@, u)],
         Entry("push", SETUP, u, u, u))

\* Capsule.setup after check_accelerator has returned st1
CapsuleRegister(u, st1) ==
    IF ~Ok(st1) THEN st1
    ELSE IF st1.caps[u].statefull THEN register_for_checkpointing(u, st1)
    ELSE st1

\* Capsule.setup
CapsuleSetup(u, st) == CapsuleRegister(u, check_accelerator(u, st))

\* a comparison of the fields of the popped object with those of the unit
is_not_equal(obj, u, st) ==
    ~(obj \in DOMAIN st.caps /\ st.caps[obj] = st.caps[u])

\* obj is not self: the popped object is another object than the unit
is_not(obj, u, st) == obj # u

\* a destroy that compares the top of the registry before it removes it
CapsuleDestroyPeek(u, st) ==
    IF ~st.caps[u].statefull THEN st
    ELSE IF ~st.caps[u].accelerator THEN Raise(st, u, "AttributeError")
    ELSE IF st.accel.custom_objects = <<>> THEN Raise(st, u, "IndexError")
    ELSE LET objs == st.accel.custom_objects
             obj == objs[Len(objs)]
         IN IF is_not(obj, u, st) THEN Raise(st, u, "IllegalTeardownError")
            ELSE Note([st EXCEPT !.accel.custom_objects =
                                     SubSeq(objs, 1, Len(objs) - 1)],
                      Entry("pop", DESTROY, u, u, obj))

\* Capsule.destroy
CapsuleDestroy(u, st) ==
    IF ~st.caps[u].statefull THEN st
    ELSE IF ~st.caps[u].accelerator THEN Raise(st, u, "AttributeError")
    ELSE IF st.accel.custom_objects = <<>> THEN Raise(st, u, "IndexError")
    ELSE LET objs == st.accel.custom_objects
             obj == objs[Len(objs)]
             st1 == Note([st EXCEPT !.accel.custom_objects =
                                        SubSeq(objs, 1, Len(objs) - 1)],
                         Entry("pop", DESTROY, u, u, obj))
         IN IF is_not(obj, u, st1) THEN Raise(st1, u, "IllegalTeardownError")
            ELSE st1

\* Capsule.accelerate
CapsuleAccelerate(u, cs) == [cs EXCEPT ![u].accelerator = TRUE]

\* Capsule.clear
CapsuleClear(u, cs) == [cs EXCEPT ![u].accelerator = FALSE]

\* Capsule.state_dict of the base class
CapsuleStateDict(c) ==
    IF ~c.statefull THEN Some([empty |-> TRUE]) ELSE None

-----------------------------------------------------------------------------
(* Dataset *)

\* indices of the registered dataloaders that wrap the dataset d
LoadersOf(d, st) ==
    {i \in DOMAIN st.accel.dataloaders : st.accel.dataloaders[i].dataset = d}

Min(S) == CHOOSE x \in S : \A y \in S : x <= y

\* a registration that refuses a dataset the accelerator already holds
DatasetRegisterOnce(u, st1) ==
    IF ~Ok(st1) THEN st1
    ELSE LET found == LoadersOf(st1.caps[u].dataset, st1) IN
         IF found = {} THEN
             LET dl == [id |-> st1.accel.created + 1,
                        dataset |-> st1.caps[u].dataset,
                        len |-> st1.caps[u].dataset.len]
             IN [st1 EXCEPT !.caps[u].dataloader = Some(dl),
                            !.accel.dataloaders = Append(@, dl),
                            !.accel.created = @ + 1]
         ELSE Raise(st1, u, "DuplicateRegistrationError")

\* Dataset.setup after Capsule.setup has returned st1
DatasetRegister(u, st1) ==
    IF ~Ok(st1) THEN st1
    ELSE LET found == LoadersOf(st1.caps[u].dataset, st1) IN
         IF found = {} THEN
             LET dl == [id |-> st1.accel.created + 1,
                        dataset |-> st1.caps[u].dataset,
                        len |-> st1.caps[u].dataset.len]
             IN [st1 EXCEPT !.caps[u].dataloader = Some(dl),
                            !.accel.dataloaders = Append(@, dl),
                            !.accel.created = @ + 1]
         ELSE LET st2 == [st1 EXCEPT !.caps[u].dataloader =
                                 Some(st1.accel.dataloaders[Min(found)])]
              IN IF Cardinality(found) > 1
                 THEN Raise(st2, u, "DuplicateRegistrationError")
                 ELSE st2

\* Dataset.setup
DatasetSetup(u, st) == DatasetRegister(u, CapsuleSetup(u, st))

\* Dataset.set (gradients are enabled wherever SET is delivered)
DatasetSet(u, st) ==
    LET c == st.caps[u] IN
    IF c.dataloader = None THEN Raise(st, u, "TypeError")
    ELSE LET n == IF c.batch_idx > 0
                  THEN Val(c.dataloader).len - c.batch_idx
                  ELSE Val(c.dataloader).len
         IN IF n < 0 THEN Raise(st, u, "ValueError")
            ELSE [st EXCEPT !.caps[u].active_dataloader = Some(n),
                            !.caps[u].total = n,
                            !.caps[u].iterator = Some(n)]

\* Dataset.reset
DatasetReset(u, st) ==
    [st EXCEPT !.caps[u].batch_idx = 0, !.caps[u].total = 0,
               !.caps[u].iterator = None]

\* Dataset.launch
DatasetLaunch(u, st) ==
    LET c == st.caps[u] IN
    IF st.attrs.batch # None THEN st
    ELSE IF c.iterator = None THEN Raise(st, u, "TypeError")
    ELSE IF Val(c.iterator) = 0 THEN
        IF st.attrs.looper # None
        THEN Note([st EXCEPT !.attrs.looper = Some([Val(@) EXCEPT !.terminate = TRUE])],
                  Entry("vote", LAUNCH, u, u, 1))
        ELSE st
    ELSE
        LET st1 == [st EXCEPT !.attrs.batch = Some([src |-> u, idx |-> c.batch_idx]),
                              !.caps[u].iterator = Some(Val(c.iterator) - 1)]
            st2 == IF st1.attrs.looper # None
                   THEN Note([st1 EXCEPT !.attrs.looper =
                                   Some([Val(@) EXCEPT !.terminate = FALSE])],
                             Entry("vote", LAUNCH, u, u, 0))
                   ELSE st1
        IN [st2 EXCEPT !.caps[u].batch_idx = @ + 1]

\* position of the first registered dataloader identical to the optional dl
FirstLoader(dl, st) ==
    LET hits == {i \in DOMAIN st.accel.dataloaders :
                    Some(st.accel.dataloaders[i]) = dl}
    IN IF hits = {} THEN None ELSE Some(Min(hits))

RemoveAt(s, i) == SubSeq(s, 1, i - 1) \o SubSeq(s, i + 1, Len(s))

\* Dataset.destroy after Capsule.destroy has returned st1
DatasetRelease(u, st1) ==
    IF ~Ok(st1) THEN st1
    ELSE LET st2 == [st1 EXCEPT !.caps[u].dataloader = None,
                                !.caps[u].active_dataloader = None]
             id == FirstLoader(st2.caps[u].dataloader, st2)
         IN IF id # None
            THEN [st2 EXCEPT !.accel.dataloaders = RemoveAt(@, Val(id))]
            ELSE st2

\* Dataset.destroy
DatasetDestroy(u, st) == DatasetRelease(u, CapsuleDestroy(u, st))

\* Dataset.state_dict
DatasetStateDict(c) == Some([batch_idx |-> c.batch_idx])

-----------------------------------------------------------------------------
(* State dictionaries, accelerator.save_state and accelerator.load_state *)

\* Looper.state_dict
LooperStateDict(c) == Some([iter_idx |-> c.iter_idx])

\* a state that records the index as it is
CheckpointerStateDictSame(c) ==
    Some([iter_idx |-> c.iter_idx, num_procs |-> c.num_procs,
          num_nodes |-> c.num_nodes])

\* Checkpointer.state_dict
CheckpointerStateDict(c) ==
    Some([iter_idx |-> c.iter_idx + 1, num_procs |-> c.num_procs,
          num_nodes |-> c.num_nodes])

\* Launcher.state_dict
LauncherStateDict(c) ==
    Some([epoch_idx |-> c.epoch_idx, num_procs |-> c.num_procs,
          num_nodes |-> c.num_nodes])

\* obj.state_dict() of a registered object; None: NotImplementedError
StateDict(obj, st) ==
    IF obj \notin Units THEN Some([foreign |-> obj])
    ELSE LET c == st.caps[obj] IN
         CASE c.kind = "Looper" -> LooperStateDict(c)
           [] c.kind = "Dataset" -> DatasetStateDict(c)
           [] c.kind = "Checkpointer" -> CheckpointerStateDict(c)
           [] c.kind = "Launcher" -> LauncherStateDict(c)
           [] OTHER -> CapsuleStateDict(c)

\* the state of obj as it is written to custom_checkpoint_<i>.pkl, with a
\* note of the object that returned it, which no load reads
Pickled(obj, state) == state @@ [of |-> obj]

\* the states of the registered objects s[i..], up to the first that raises
RECURSIVE CustomStates(_, _, _)
CustomStates(s, i, st) ==
    IF i > Len(s) \/ StateDict(s[i], st) = None THEN <<>>
    ELSE <<Pickled(s[i], Val(StateDict(s[i], st)))>>
         \o CustomStates(s, i + 1, st)

\* accelerator.save_state(output_dir) once the states `saved` are collected
WriteStates(u, dir, saved, st) ==
    IF Len(saved) < Len(st.accel.custom_objects)
    THEN Raise(Note([st EXCEPT !.fs = (dir :> saved) @@ @],
                    Entry("save", LAUNCH, u, u, dir)),
               u, "NotImplementedError")
    ELSE Note([st EXCEPT !.fs = (dir :> saved) @@ @],
              Entry("save", LAUNCH, u, u, dir))

\* accelerator.save_state(output_dir): one state per registered object
save_state(u, dir, st) ==
    WriteStates(u, dir, CustomStates(st.accel.custom_objects, 1, st), st)

-----------------------------------------------------------------------------
(* Checkpointer *)

\* exception names that are RuntimeError or a subclass of it in the code
RuntimeErrors ==
    {"RuntimeError", "NotImplementedError", "ContextUnboundError",
     "IllegalTeardownError", "DuplicateRegistrationError",
     "UnboundedLoopError", "NestedLoopError", "TopologyMismatchError",
     "OverwriteDeniedError"}

\* Looper.load_state_dict
LooperLoadStateDict(c, state) ==
    Some([c EXCEPT !.iter_idx = IF "iter_idx" \in DOMAIN state
                                 THEN state.iter_idx ELSE None])

\* Dataset.load_state_dict
DatasetLoadStateDict(c, state) ==
    IF "batch_idx" \in DOMAIN state
    THEN Some([c EXCEPT !.batch_idx = state.batch_idx]) ELSE None

\* a load_state_dict of the checkpointer that takes the topology alone
CheckpointerLoadStateDictTopology(c, state) ==
    IF {"iter_idx", "num_procs", "num_nodes"} \subseteq DOMAIN state
    THEN Some([c EXCEPT !.num_procs = state.num_procs,
                        !.num_nodes = state.num_nodes])
    ELSE None

\* Checkpointer.load_state_dict
CheckpointerLoadStateDict(c, state) ==
    IF {"iter_idx", "num_procs", "num_nodes"} \subseteq DOMAIN state
    THEN Some([c EXCEPT !.iter_idx = state.iter_idx,
                        !.num_procs = state.num_procs,
                        !.num_nodes = state.num_nodes])
    ELSE None

\* Launcher.load_state_dict
LauncherLoadStateDict(c, state) ==
    IF {"epoch_idx", "num_procs", "num_nodes"} \subseteq DOMAIN state
    THEN Some([c EXCEPT !.epoch_idx = state.epoch_idx,
                        !.num_procs = state.num_procs,
                        !.num_nodes = state.num_nodes])
    ELSE None

\* Capsule.load_state_dict of the base class
CapsuleLoadStateDict(c, state) == IF ~c.statefull THEN Some(c) ELSE None

\* obj.load_state_dict(state); None: the call raises
LoadStateDict(c, state) ==
    CASE c.kind = "Looper" -> LooperLoadStateDict(c, state)
      [] c.kind = "Dataset" -> DatasetLoadStateDict(c, state)
      [] c.kind = "Checkpointer" -> CheckpointerLoadStateDict(c, state)
      [] c.kind = "Launcher" -> LauncherLoadStateDict(c, state)
      [] OTHER -> CapsuleLoadStateDict(c, state)

\* the registered object obj after obj.load_state_dict has returned c
Loaded(u, obj, i, c, st) ==
    IF c = None THEN Raise(st, obj, "KeyError")
    ELSE Note([st EXCEPT !.caps[obj] = Val(c)],
              Entry("load", SETUP, obj, u, i))

\* load the saved states s[i..] into the registered objects, in order
RECURSIVE LoadCustom(_, _, _, _)
LoadCustom(u, s, i, st) ==
    IF ~Ok(st) \/ i > Len(s) THEN st
    ELSE IF st.accel.custom_objects[i] \notin Units
    THEN LoadCustom(u, s, i + 1, st)
    ELSE LoadCustom(u, s, i + 1,
             Loaded(u, st.accel.custom_objects[i], i,
                    LoadStateDict(st.caps[st.accel.custom_objects[i]], s[i]),
                    st))

\* the first n elements of s, or all of them
Prefix(s, n) == IF n < Len(s) THEN SubSeq(s, 1, n) ELSE s

\* a load_state that does not compare the number of saved states with the
\* number of registered objects
load_stateUnchecked(u, dir, st) ==
    IF dir \notin DOMAIN st.fs
    THEN Raise(Note(st, Entry("restore", SETUP, u, u, dir)), u, "ValueError")
    ELSE LoadCustom(u, Prefix(st.fs[dir], Len(st.accel.custom_objects)), 1,
                    Note(st, Entry("restore", SETUP, u, u, dir)))

\* accelerator.load_state(input_dir)
load_state(u, dir, st) ==
    IF dir \notin DOMAIN st.fs
    THEN Raise(Note(st, Entry("restore", SETUP, u, u, dir)), u, "ValueError")
    ELSE IF Len(st.fs[dir]) # Len(st.accel.custom_objects)
    THEN Raise(Note(st, Entry("restore", SETUP, u, u, dir)), u, "RuntimeError")
    ELSE LoadCustom(u, st.fs[dir], 1,
                    Note(st, Entry("restore", SETUP, u, u, dir)))

\* except RuntimeError: the registry is put back and the error is dropped
Recovered(u, load_capsules, custom_objects, st1) ==
    IF ~load_capsules /\ st1.err \in RuntimeErrors
    THEN Note([st1 EXCEPT !.err = NoErr,
                          !.accel.custom_objects = custom_objects],
              Entry("caught", st1.err, u, u, 0))
    ELSE st1

\* the restore step shared by Checkpointer.setup and Launcher._resume:
\* with load_capsules the full state, else the state without the capsules
Restore(u, dir, load_capsules, st) ==
    Recovered(u, load_capsules, st.accel.custom_objects,
              load_state(u, dir,
                  IF load_capsules THEN st
                  ELSE [st EXCEPT !.accel.custom_objects = <<>>]))

\* unit.load_state_dict(unit.state_dict()), called from outside the pipeline
RoundTrip(u, st) ==
    Loaded(User, u, 0, LoadStateDict(st.caps[u], Val(StateDict(u, st))), st)

\* a setup that takes over the topology of the buffer without the test
CheckpointerTopologyUnchecked(u, resume, st3) ==
    IF ~Ok(st3) THEN st3
    ELSE IF st3.attrs.launcher = None THEN Raise(st3, u, "AttributeError")
    ELSE [st3 EXCEPT
            !.caps[u].num_procs = Val(st3.attrs.launcher).num_procs,
            !.caps[u].num_nodes = Val(st3.attrs.launcher).num_nodes]

\* Checkpointer.setup: the topology test after the restore returned st3
CheckpointerTopology(u, resume, st3) ==
    IF ~Ok(st3) THEN st3
    ELSE IF st3.attrs.launcher = None THEN Raise(st3, u, "AttributeError")
    ELSE IF resume # None
            /\ (st3.caps[u].num_procs # Val(st3.attrs.launcher).num_procs
                \/ st3.caps[u].num_nodes # Val(st3.attrs.launcher).num_nodes)
    THEN Raise(st3, u, "TopologyMismatchError")
    ELSE [st3 EXCEPT
            !.caps[u].num_procs = Val(st3.attrs.launcher).num_procs,
            !.caps[u].num_nodes = Val(st3.attrs.launcher).num_nodes]

\* Checkpointer.setup: the restore once resume and strict are read into st2
CheckpointerRestore(u, st2) ==
    CheckpointerTopology(u, st2.caps[u].resume,
        IF st2.caps[u].resume = None THEN st2
        ELSE Restore(u, Val(st2.caps[u].resume), st2.caps[u].strict, st2))

\* Checkpointer.setup after Capsule.setup has returned st1
CheckpointerRead(u, st1) ==
    IF ~Ok(st1) THEN st1
    ELSE IF st1.attrs.checkpointer = None THEN Raise(st1, u, "AttributeError")
    ELSE CheckpointerRestore(u,
             [st1 EXCEPT
                !.caps[u].resume = Val(st1.attrs.checkpointer).resume,
                !.caps[u].strict = Val(st1.attrs.checkpointer).strict])

\* Checkpointer.setup
CheckpointerSetup(u, st) == CheckpointerRead(u, CapsuleSetup(u, st))

\* a cadence test on the index itself
DueAtStart(c) == c.iter_idx % c.save_every = 0

\* the cadence test of Checkpointer.launch
Due(c) == (c.iter_idx + 1) % c.save_every = 0

\* an overwrite test that lets every attempt through
DeniedNever(c, dir, st) == FALSE

\* the overwrite test of Checkpointer.launch
Denied(c, dir, st) == ~c.overwrite /\ dir \in DOMAIN st.fs

\* the log line of Checkpointer.launch after save_state has returned st1
CheckpointerSaved(u, st1) ==
    IF Ok(st1) /\ st1.attrs.launcher = None
    THEN Raise(st1, u, "AttributeError")
    ELSE st1

\* the save branch of Checkpointer.launch
CheckpointerSave(u, st) ==
    IF Denied(st.caps[u], st.caps[u].iter_idx, st)
    THEN Raise(st, u, "OverwriteDeniedError")
    ELSE CheckpointerSaved(u, save_state(u, st.caps[u].iter_idx, st))

\* self._iter_idx += 1 at the end of Checkpointer.launch
CheckpointerCount(u, st1) ==
    IF ~Ok(st1) THEN st1 ELSE [st1 EXCEPT !.caps[u].iter_idx = @ + 1]

\* a launch that counts on every process and for every period
CheckpointerLaunchAlways(u, st) ==
    CheckpointerCount(u,
        IF st.accel.is_main_process /\ st.caps[u].save_every > 0
           /\ Due(st.caps[u])
        THEN CheckpointerSave(u, st) ELSE st)

\* a launch that saves on every process of the accelerator
CheckpointerLaunchAnyProcess(u, st) ==
    IF st.caps[u].save_every < 0 THEN st
    ELSE CheckpointerCount(u, IF Due(st.caps[u]) THEN CheckpointerSave(u, st)
                              ELSE st)

\* Checkpointer.launch
CheckpointerLaunch(u, st) ==
    IF ~st.accel.is_main_process THEN st
    ELSE IF st.caps[u].save_every < 0 THEN st
    ELSE CheckpointerCount(u, IF Due(st.caps[u]) THEN CheckpointerSave(u, st)
                              ELSE st)

-----------------------------------------------------------------------------
(* Dispatcher, Looper and the dispatch of events *)

RECURSIVE Dispatch(_, _, _, _)
RECURSIVE Broadcast(_, _, _, _, _)
RECURSIVE Loop(_, _, _, _)
RECURSIVE LoopCheck(_, _, _, _)

\* a destroy that visits the children in the order of setup
DestroyOrderForward(capsules) == capsules

\* the order in which Dispatcher.destroy visits the children
DestroyOrder(capsules) == Reverse(capsules)

\* Dispatcher.setup
DispatcherSetup(u, st) ==
    Broadcast(SETUP, u, st.caps[u].capsules, 1, CapsuleSetup(u, st))

\* Dispatcher.destroy after the children have been destroyed
DispatcherRelease(u, st1) == IF ~Ok(st1) THEN st1 ELSE CapsuleDestroy(u, st1)

\* Dispatcher.destroy
DispatcherDestroy(u, st) ==
    DispatcherRelease(u, Broadcast(DESTROY, u,
                                   DestroyOrder(st.caps[u].capsules), 1, st))

\* Dispatcher.set
DispatcherSet(u, st) == Broadcast(SET, u, st.caps[u].capsules, 1, st)

\* Dispatcher.reset
DispatcherReset(u, st) == Broadcast(RESET, u, st.caps[u].capsules, 1, st)

\* a launch broadcast that stops at the first child that finds the
\* terminate flag of the looper entry set
RECURSIVE LaunchUntilVote(_, _, _)
LaunchUntilVote(u, i, st) ==
    IF ~Ok(st) \/ i > Len(st.caps[u].capsules) THEN st
    ELSE IF st.attrs.looper # None /\ Val(st.attrs.looper).terminate THEN st
    ELSE LaunchUntilVote(u, i + 1,
                         Dispatch(LAUNCH, st.caps[u].capsules[i], u, st))

\* a launch of the dispatcher that a vote to terminate cuts short
DispatcherLaunchCancelling(u, st) == LaunchUntilVote(u, 1, st)

\* a launch of the dispatcher that is not passed on to its children
DispatcherLaunchShallow(u, st) == st

\* Dispatcher.launch
DispatcherLaunch(u, st) == Broadcast(LAUNCH, u, st.caps[u].capsules, 1, st)

\* a gate that lets every epoch through
NeededAlways(epoch, run_every) == TRUE

\* the test of Looper.run_if_needed
Needed(epoch, run_every) == epoch % run_every = 0

\* Looper.infer_repeats
infer_repeats(u, st) ==
    LET c == st.caps[u]
        totals == [i \in DOMAIN c.capsules |->
                     IF st.caps[c.capsules[i]].kind = "Dataset"
                     THEN st.caps[c.capsules[i]].total ELSE 0]
        repeats == SumSeq(totals)
    IN IF repeats # 0 THEN [st EXCEPT !.caps[u].repeats = Some(repeats)]
       ELSE st

\* Looper.set once the repeats are resolved in st3: the guard against
\* infinite loops and the looper entry of the buffer
LooperBuffer(u, st3) ==
    IF st3.caps[u].repeats = None THEN Raise(st3, u, "UnboundedLoopError")
    ELSE IF st3.attrs.looper = None
    THEN [st3 EXCEPT !.attrs.looper =
             Some([repeats |-> Val(st3.caps[u].repeats),
                   terminate |-> FALSE, tag |-> st3.caps[u].tag])]
    ELSE st3

\* Looper.set: if self._repeats is None: self.infer_repeats()
LooperInfer(u, st2) ==
    LooperBuffer(u, IF st2.caps[u].repeats = None THEN infer_repeats(u, st2)
                    ELSE st2)

\* Looper.set after Dispatcher.set has returned st1
LooperRepeats(u, st1) ==
    IF ~Ok(st1) THEN st1
    ELSE LooperInfer(u, [st1 EXCEPT !.caps[u].repeats =
                                        st1.caps[u].user_defined_repeats])

\* the body of Looper.set
LooperSet(u, st) == LooperRepeats(u, DispatcherSet(u, st))

\* Looper.reset after Dispatcher.reset has returned st1
LooperForget(u, st1) ==
    IF ~Ok(st1) THEN st1
    ELSE IF st1.attrs.looper = None THEN Raise(st1, u, "AttributeError")
    ELSE [st1 EXCEPT !.caps[u].repeats = None, !.attrs.looper = None]

\* the body of Looper.reset
LooperReset(u, st) == LooperForget(u, DispatcherReset(u, st))

\* a loop that never breaks
TerminatedNever(st) == FALSE

\* a loop that breaks when any child voted to terminate in the iteration
TerminatedOnAnyVote(st) ==
    \E v \in DOMAIN st.log :
        /\ st.log[v].t = "vote" /\ st.log[v].x = 1
        /\ \A j \in DOMAIN st.log : j > v => st.log[j].t # "iter"

\* the break of the loop of Looper.launch
Terminated(st) == Val(st.attrs.looper).terminate

\* a loop that runs one iteration more than the repeats
LoopOver(u, i, n, st) ==
    IF i > n THEN st
    ELSE LoopCheck(u, i, n,
             DispatcherLaunch(u, Note([st EXCEPT !.attrs.batch = None],
                                      Entry("iter", LAUNCH, u, u, i))))

\* a loop that keeps the number of the iteration in the persisted index
LoopCounting(u, i, n, st) ==
    IF i >= n THEN st
    ELSE LoopCheck(u, i, n,
             DispatcherLaunch(u, Note([st EXCEPT !.attrs.batch = None,
                                                 !.caps[u].iter_idx = i],
                                      Entry("iter", LAUNCH, u, u, i))))

\* a loop that leaves the batch of the last iteration in the buffer
LoopKeeping(u, i, n, st) ==
    IF i >= n THEN st
    ELSE LoopCheck(u, i, n,
             DispatcherLaunch(u, Note(st, Entry("iter", LAUNCH, u, u, i))))

\* the iterations i, i+1, .. n-1 of the loop of Looper.launch
Loop(u, i, n, st) ==
    IF i >= n THEN st
    ELSE LoopCheck(u, i, n,
             DispatcherLaunch(u, Note([st EXCEPT !.attrs.batch = None],
                                      Entry("iter", LAUNCH, u, u, i))))

\* the end of iteration i: if attrs.looper.terminate: break
LoopCheck(u, i, n, st2) ==
    IF ~Ok(st2) THEN st2
    ELSE IF st2.attrs.looper = None THEN Raise(st2, u, "AttributeError")
    ELSE IF Terminated(st2)
    THEN Note(st2, Entry("check", LAUNCH, u, u, 1))
    ELSE Loop(u, i + 1, n, Note(st2, Entry("check", LAUNCH, u, u, 0)))

\* the end of Looper.launch: the counters are cleared
LooperClear(u, st1) ==
    IF ~Ok(st1) THEN st1
    ELSE [st1 EXCEPT !.caps[u].iter_idx = 0, !.caps[u].repeats = Some(-1)]

\* the body of Looper.launch
LooperLaunch(u, st) ==
    IF st.caps[u].repeats = None THEN Raise(st, u, "TypeError")
    ELSE LooperClear(u, Loop(u, 0, Val(st.caps[u].repeats), st))

\* the method wrapped by Looper.run_if_needed
LooperBody(ev, u, st) ==
    CASE ev = SET -> LooperSet(u, st)
      [] ev = RESET -> LooperReset(u, st)
      [] ev = LAUNCH -> LooperLaunch(u, st)

\* Looper.run_if_needed: the wrapper of Looper.set, reset and launch
run_if_needed(ev, u, st) ==
    IF st.attrs.launcher = None THEN Raise(st, u, "AttributeError")
    ELSE IF Val(st.attrs.launcher).epoch_idx = None
    THEN Raise(st, u, "TypeError")
    ELSE IF ~Needed(Val(Val(st.attrs.launcher).epoch_idx),
                    st.caps[u].run_every)
    THEN st
    ELSE LooperBody(ev, u, Note(st, Entry("body", ev, u, u,
                                  IF ev = LAUNCH /\ st.caps[u].repeats # None
                                  THEN Val(st.caps[u].repeats) ELSE 0)))

\* getattr(self, event.value)(attrs): the handler of unit u for event ev
Handler(ev, u, st) ==
    LET k == st.caps[u].kind IN
    CASE k \in {"Dispatcher", "Looper"} /\ ev = SETUP -> DispatcherSetup(u, st)
      [] k \in {"Dispatcher", "Looper"} /\ ev = DESTROY -> DispatcherDestroy(u, st)
      [] k = "Dispatcher" /\ ev = SET -> DispatcherSet(u, st)
      [] k = "Dispatcher" /\ ev = RESET -> DispatcherReset(u, st)
      [] k = "Dispatcher" /\ ev = LAUNCH -> DispatcherLaunch(u, st)
      [] k = "Looper" /\ ev \in {SET, RESET, LAUNCH} -> run_if_needed(ev, u, st)
      [] k = "Dataset" /\ ev = SETUP -> DatasetSetup(u, st)
      [] k = "Dataset" /\ ev = DESTROY -> DatasetDestroy(u, st)
      [] k = "Dataset" /\ ev = SET -> DatasetSet(u, st)
      [] k = "Dataset" /\ ev = RESET -> DatasetReset(u, st)
      [] k = "Dataset" /\ ev = LAUNCH -> DatasetLaunch(u, st)
      [] k = "Checkpointer" /\ ev = SETUP -> CheckpointerSetup(u, st)
      [] k = "Checkpointer" /\ ev = LAUNCH -> CheckpointerLaunch(u, st)
      [] k = "Capsule" /\ ev = SETUP -> CapsuleSetup(u, st)
      [] k \in {"Capsule", "Checkpointer"} /\ ev = DESTROY -> CapsuleDestroy(u, st)
      [] OTHER -> st

\* the return of a handler of unit u to its caller `by`
Return(ev, u, by, st1) ==
    IF ~Ok(st1) THEN st1
    ELSE Note(st1, Entry("ret", ev, u, by, Index(u, st1)))

\* what the handler of LAUNCH finds in attrs.batch when it is called
Observed(ev, u, by, st) ==
    IF ev = LAUNCH THEN Note(st, Entry("see", ev, u, by, st.attrs.batch))
    ELSE st

\* the call of the handler of unit u
Called(ev, u, by, st) ==
    Handler(ev, u, Note(st, Entry("recv", ev, u, by, Index(u, st))))

\* Capsule.dispatch, called by unit `by` (or by the user) on unit u
Dispatch(ev, u, by, st) ==
    IF ~Ok(st) THEN st
    ELSE Return(ev, u, by, Called(ev, u, by, Observed(ev, u, by, st)))

\* a broadcast that goes on to the next child when a child has raised, and
\* keeps the first exception for the caller
BroadcastIsolated(ev, by, capsules, i, st) ==
    IF i > Len(capsules) THEN st
    ELSE LET st1 == Dispatch(ev, capsules[i], by, [st EXCEPT !.err = NoErr])
         IN Broadcast(ev, by, capsules, i + 1,
                      IF Ok(st) THEN st1 ELSE [st1 EXCEPT !.err = st.err])

\* for capsule in capsules[i..]: capsule.dispatch(ev, attrs)
Broadcast(ev, by, capsules, i, st) ==
    IF ~Ok(st) \/ i > Len(capsules) THEN st
    ELSE Broadcast(ev, by, capsules, i + 1,
                   Dispatch(ev, capsules[i], by, st))

\* Dispatcher.accelerate on the subtree of u
RECURSIVE Accelerate(_, _)
RECURSIVE AccelerateAll(_, _, _)
Accelerate(u, cs) ==
    IF IsDispatcher(cs[u])
    THEN AccelerateAll(cs[u].capsules, 1, CapsuleAccelerate(u, cs))
    ELSE CapsuleAccelerate(u, cs)
AccelerateAll(capsules, i, cs) ==
    IF i > Len(capsules) THEN cs
    ELSE AccelerateAll(capsules, i + 1, Accelerate(capsules[i], cs))

\* a clear that forgets the accelerator of the dispatcher alone
ClearSelf(u, cs) == CapsuleClear(u, cs)

\* Dispatcher.clear on the subtree of u
RECURSIVE Clear(_, _)
RECURSIVE ClearAll(_, _, _)
Clear(u, cs) ==
    IF IsDispatcher(cs[u])
    THEN ClearAll(cs[u].capsules, 1, CapsuleClear(u, cs))
    ELSE CapsuleClear(u, cs)
ClearAll(capsules, i, cs) ==
    IF i > Len(capsules) THEN cs
    ELSE ClearAll(capsules, i + 1, Clear(capsules[i], cs))

-----------------------------------------------------------------------------
(* Launcher *)

\* Launcher._resolve_project_dir
resolve_project_dir(u, st) ==
    IF ~st.caps[u].experiment_versioning /\ st.args.project_dir_exists
    THEN Raise(st, u, "DirectoryConflictError")
    ELSE st

\* Accelerator(...): a new accelerator of the process
NewAccelerator(is_main_process) ==
    [custom_objects |-> <<>>, dataloaders |-> <<>>, created |-> 0,
     is_main_process |-> is_main_process]

\* the dataloaders the user has prepared on their own accelerator, one for
\* each dataset of the list
Prepared(loaders, dlen) ==
    [i \in DOMAIN loaders |->
        [id |-> i, dataset |-> [id |-> loaders[i], len |-> dlen[loaders[i]]],
         len |-> dlen[loaders[i]]]]

\* Launcher.setup: the accelerator is created and bound to the pipeline
LauncherAccelerate(u, st1) ==
    [st1 EXCEPT !.accel = NewAccelerator(st1.args.is_main_process),
                !.caps = [Accelerate(u, @) EXCEPT
                            ![u].num_procs = Val(st1.attrs.launcher).num_procs,
                            ![u].num_nodes = Val(st1.attrs.launcher).num_nodes]]

\* Launcher.notebook: the wrapper of Launcher.launch fills the buffer
notebook(u, st) ==
    IF st.attrs.launcher = None
    THEN [st EXCEPT !.attrs.launcher =
             Some([epoch_idx |-> None, num_procs |-> st.caps[u].num_procs,
                   num_nodes |-> st.caps[u].num_nodes])]
    ELSE st

\* Launcher._resume after the restore has returned st1
LauncherTopology(u, load_capsules, st1) ==
    IF ~Ok(st1)
    THEN IF load_capsules THEN [st1 EXCEPT !.err = "RuntimeError"] ELSE st1
    ELSE IF st1.caps[u].num_procs # Val(st1.attrs.launcher).num_procs
            \/ st1.caps[u].num_nodes # Val(st1.attrs.launcher).num_nodes
    THEN Raise(st1, u, "TopologyMismatchError")
    ELSE st1

\* Launcher._resume
LauncherResume(u, st) ==
    IF st.caps[u].resume_from = None THEN st
    ELSE LauncherTopology(u, st.caps[u].load_capsules,
             Restore(u, Val(st.caps[u].resume_from),
                     st.caps[u].load_capsules, st))

\* a setup that restores the checkpoint before it sets the children up
LauncherBindRestoring(u, st1) ==
    IF ~Ok(st1) THEN st1
    ELSE DispatcherSetup(u, LauncherResume(u, LauncherAccelerate(u, st1)))

\* Launcher.setup after _resolve_project_dir has returned st1
LauncherBind(u, st1) ==
    IF ~Ok(st1) THEN st1 ELSE DispatcherSetup(u, LauncherAccelerate(u, st1))

\* Launcher.setup
LauncherSetup(u, st) == LauncherBind(u, resolve_project_dir(u, st))

\* Launcher.resume on the launcher object c
resume(path, load_capsules, c) ==
    [c EXCEPT !.resume_from = Some(path), !.load_capsules = load_capsules]

\* Launcher.destroy after Dispatcher.destroy has returned st1
LauncherClear(u, st1) ==
    IF ~Ok(st1) THEN st1
    ELSE [st1 EXCEPT !.attrs.launcher = None, !.caps = Clear(u, @)]

\* Launcher.destroy
LauncherDestroy(u, st) == LauncherClear(u, DispatcherDestroy(u, st))

-----------------------------------------------------------------------------
(* The pipelines explored *)

Shapes ==
    {[mode |-> "launch",
      kind |-> <<"Looper", "Dataset", "Dataset", "Checkpointer", "Capsule">>
               @@ (0 :> "Launcher"),
      given |-> (0 :> <<1, 5>>) @@ (1 :> <<2, 3, 4>>)],
     [mode |-> "launch",
      kind |-> <<"Dispatcher", "Capsule", "Capsule", "Capsule", "Looper">>
               @@ (0 :> "Launcher"),
      given |-> (0 :> <<1, 5>>) @@ (1 :> <<2, 3, 4>>) @@ (5 :> <<>>)],
     [mode |-> "launch",
      kind |-> <<"Looper", "Dataset", "Dispatcher", "Capsule", "Capsule">>
               @@ (0 :> "Launcher"),
      given |-> (0 :> <<1>>) @@ (1 :> <<2, 3>>) @@ (3 :> <<4, 5>>)],
     [mode |-> "launch",
      kind |-> <<"Looper", "Dataset", "Looper", "Capsule", "Checkpointer">>
               @@ (0 :> "Launcher"),
      given |-> (0 :> <<1, 3, 5>>) @@ (1 :> <<2>>) @@ (3 :> <<4>>)],
     [mode |-> "direct",
      kind |-> <<"Capsule", "Looper", "Capsule", "Dispatcher", "Capsule">>
               @@ (0 :> "Dispatcher"),
      given |-> (0 :> <<1, 2>>) @@ (2 :> <<3, 4>>) @@ (4 :> <<5>>)],
     [mode |-> "direct",
      kind |-> <<"Capsule", "Dataset", "Capsule", "Capsule", "Capsule">>
               @@ (0 :> "Looper"),
      given |-> (0 :> <<1, 2, 3, 4, 5>>)]}

Priorities == {1, 3, 5}

Of(sh, k) == {u \in Units : sh.kind[u] = k}

\* the arguments every family starts from
Defaults(sh) ==
    [mode |-> sh.mode, kind |-> sh.kind, given |-> sh.given,
     priority |-> [u \in Units |-> IF u = Root THEN 1000 ELSE 3],
     statefull |-> [u \in Units |-> sh.kind[u] # "Capsule"],
     repeats |-> [u \in Of(sh, "Looper") |-> Some(1)],
     run_every |-> [u \in Of(sh, "Looper") |-> 1],
     dlen |-> [u \in Of(sh, "Dataset") |-> 1],
     save_every |-> None, overwrite |-> TRUE,
     num_epochs |-> 1, num_procs |-> 1, num_nodes |-> 1,
     versioning |-> TRUE, project_dir_exists |-> FALSE,
     is_main_process |-> TRUE, dirs |-> {},
     checkpointer |-> Some([resume |-> None, strict |-> TRUE]),
     pre |-> <<>>, rerun |-> FALSE,
     dataset |-> [u \in Of(sh, "Dataset") |-> u], loaders |-> <<>>]

\* every assignment of priorities to the units 2, 3 and 4, with three
\* patterns of stateful units
OrderFamily ==
    UNION {{[Defaults(sh) EXCEPT !.priority = p @@ o @@ (Root :> 1000),
                                 !.statefull = s, !.pre = q] :
               p \in [{2, 3, 4} -> Priorities],
               o \in {(1 :> 3) @@ (5 :> 1), (1 :> 1) @@ (5 :> 3)},
               s \in {[u \in Units |-> TRUE], [u \in Units |-> FALSE],
                      [u \in Units |-> u % 2 = 1]},
               q \in IF sh.mode = "direct" THEN {<<>>, <<100, 101>>}
                     ELSE {<<>>}} :
           sh \in Shapes}

\* repeat counts and dataset lengths, in both orders of the children
RepeatFamily ==
    UNION {{[Defaults(sh) EXCEPT !.repeats = r, !.dlen = d, !.priority = p,
                                 !.save_every = Some(2)] :
               r \in [Of(sh, "Looper") -> {None} \cup {Some(k) : k \in 0 .. MaxRepeats}],
               d \in [Of(sh, "Dataset") -> 0 .. MaxTotal],
               p \in {[u \in Units |-> IF u = Root THEN 1000 ELSE u],
                      [u \in Units |-> IF u = Root THEN 1000 ELSE 6 - u]}} :
           sh \in {x \in Shapes : x.mode = "launch"}}

\* epoch gates and epoch counts, with given and with inferred repeats
GateFamily ==
    UNION {{[Defaults(sh) EXCEPT !.run_every = e, !.num_epochs = n,
                                 !.repeats = [u \in Of(sh, "Looper") |-> r],
                                 !.dlen = [u \in Of(sh, "Dataset") |-> MaxTotal],
                                 !.save_every = Some(2)] :
               e \in [Of(sh, "Looper") -> 1 .. MaxRunEvery],
               n \in 1 .. MaxEpochs,
               r \in {None, Some(MaxRepeats)}} :
           sh \in {x \in Shapes : x.mode = "launch"}}

\* checkpoint periods, overwrite flags, processes and existing directories
CheckpointFamily ==
    UNION {{[Defaults(sh) EXCEPT !.save_every = s, !.overwrite = o,
                                 !.is_main_process = m, !.dirs = ds,
                                 !.checkpointer = ck,
                                 !.statefull = [u \in Units |-> sf \/ sh.kind[u] # "Capsule"],
                                 !.repeats = [u \in Of(sh, "Looper") |-> Some(MaxRepeats)],
                                 !.dlen = [u \in Of(sh, "Dataset") |-> MaxTotal],
                                 !.num_epochs = MaxEpochs] :
               s \in {None, Some(-1)} \cup {Some(k) : k \in 0 .. MaxSaveEvery},
               o \in BOOLEAN, m \in BOOLEAN, sf \in BOOLEAN,
               ds \in {{}, {1}, {2}},
               ck \in {None, Some([resume |-> None, strict |-> TRUE])}} :
           sh \in {x \in Shapes : Of(x, "Checkpointer") # {}}}

\* project directories with and without experiment versioning
DirectoryFamily ==
    {[Defaults(sh) EXCEPT !.versioning = v, !.project_dir_exists = x] :
        sh \in {y \in Shapes : y.mode = "launch"}, v \in BOOLEAN, x \in BOOLEAN}

\* the topologies of the distributed runs: (num_procs, num_nodes)
Topologies == {<<1, 1>>, <<2, 1>>, <<1, 2>>}

\* the resume directives a script can put into the buffer for the
\* checkpointer, given the checkpoint directories that exist
Directives(dirs) ==
    {Some([resume |-> None, strict |-> TRUE])}
    \cup {Some([resume |-> Some(d), strict |-> s]) : d \in dirs, s \in BOOLEAN}

\* runs that write checkpoints under a topology and are run again, resumed
\* or not, by a script with another topology; the directory 5 holds a
\* checkpoint without states of units
ResumeFamily ==
    UNION {{[Defaults(sh) EXCEPT !.save_every = Some(2), !.num_epochs = 2,
                                 !.repeats = [u \in Of(sh, "Looper") |-> Some(1)],
                                 !.statefull = [u \in Units |->
                                     IF u = Root THEN sf
                                     ELSE sh.kind[u] # "Capsule"],
                                 !.num_procs = t[1], !.num_nodes = t[2],
                                 !.dirs = {5}, !.checkpointer = ck,
                                 !.rerun = TRUE] :
               sf \in BOOLEAN, t \in Topologies, ck \in Directives({5})} :
           sh \in {x \in Shapes : Of(x, "Checkpointer") # {}}}

\* pipelines with a looper given to a looper, in both modes
NestedShapes ==
    {[mode |-> "launch",
      kind |-> <<"Looper", "Dataset", "Looper", "Capsule", "Capsule">>
               @@ (0 :> "Launcher"),
      given |-> (0 :> <<1, 5>>) @@ (1 :> <<2, 3>>) @@ (3 :> <<4>>)],
     [mode |-> "direct",
      kind |-> <<"Capsule", "Looper", "Capsule", "Looper", "Capsule">>
               @@ (0 :> "Looper"),
      given |-> (0 :> <<1, 2, 4>>) @@ (2 :> <<3>>) @@ (4 :> <<5>>)]}

\* loopers given to loopers, with and without repeat counts
NestFamily ==
    UNION {{[Defaults(sh) EXCEPT !.repeats = [u \in Of(sh, "Looper") |-> r]] :
               r \in {None, Some(1)}} :
           sh \in NestedShapes}

\* a looper inside a dispatcher inside a looper, and two loopers inside a
\* dispatcher
DeepShapes ==
    {[mode |-> "launch",
      kind |-> <<"Looper", "Dataset", "Dispatcher", "Looper", "Capsule">>
               @@ (0 :> "Launcher"),
      given |-> (0 :> <<1>>) @@ (1 :> <<2, 3>>) @@ (3 :> <<4>>)
                @@ (4 :> <<5>>)],
     [mode |-> "launch",
      kind |-> <<"Dispatcher", "Looper", "Looper", "Capsule", "Dataset">>
               @@ (0 :> "Launcher"),
      given |-> (0 :> <<1>>) @@ (1 :> <<2, 3, 4>>) @@ (2 :> <<5>>)
                @@ (3 :> <<>>)]}

\* loopers that receive their events in one broadcast and share the looper
\* entry of the buffer, with repeat counts given and inferred; the guards
\* of the constructors raise nothing on them
DeepFamily ==
    UNION {{[Defaults(sh) EXCEPT !.repeats = [u \in Of(sh, "Looper") |->
                                     IF \A v \in Of(sh, "Looper") : u <= v
                                     THEN r ELSE q],
                                 !.dlen = [u \in Of(sh, "Dataset") |-> MaxTotal]] :
               r \in {None, Some(1), Some(MaxRepeats)},
               q \in {None, Some(1), Some(MaxRepeats)}} :
           sh \in DeepShapes}

\* pipelines with two Dataset capsules
SharedShapes ==
    {[mode |-> "launch",
      kind |-> <<"Looper", "Dataset", "Dataset", "Checkpointer", "Capsule">>
               @@ (0 :> "Launcher"),
      given |-> (0 :> <<1, 5>>) @@ (1 :> <<2, 3, 4>>)],
     [mode |-> "direct",
      kind |-> <<"Capsule", "Dataset", "Dataset", "Capsule", "Capsule">>
               @@ (0 :> "Dispatcher"),
      given |-> (0 :> <<1, 2, 3, 4, 5>>)]}

\* two Dataset capsules that wrap the same dataset or two datasets, on an
\* accelerator of the launcher or on one on which the user has prepared
\* dataloaders of these datasets before
SharedFamily ==
    UNION {{[Defaults(sh) EXCEPT !.dataset = [u \in Of(sh, "Dataset") |-> d[u - 1]],
                                 !.dlen = [u \in Of(sh, "Dataset") |-> n],
                                 !.loaders = l,
                                 !.statefull = [u \in Units |-> s]] :
               d \in {<<2, 2>>, <<2, 3>>}, n \in 0 .. MaxTotal, s \in BOOLEAN,
               l \in IF sh.mode = "direct"
                     THEN {<<>>, <<2>>, <<2, 2>>, <<3, 2>>, <<3, 2, 3>>}
                     ELSE {<<>>}} :
           sh \in SharedShapes}

\* trees of dispatchers: a dispatcher with a dispatcher of two capsules and a
\* capsule as its children, given to a launcher and used on its own
TreeShapes ==
    {[mode |-> "launch",
      kind |-> <<"Dispatcher", "Capsule", "Dispatcher", "Capsule", "Capsule">>
               @@ (0 :> "Launcher"),
      given |-> (0 :> <<1>>) @@ (1 :> <<3, 5>>) @@ (3 :> <<2, 4>>)],
     [mode |-> "direct",
      kind |-> <<"Dispatcher", "Capsule", "Dispatcher", "Capsule", "Capsule">>
               @@ (0 :> "Dispatcher"),
      given |-> (0 :> <<1>>) @@ (1 :> <<3, 5>>) @@ (3 :> <<2, 4>>)]}

\* the trees with every order of the children, for one epoch and for more
TreeFamily ==
    UNION {{[Defaults(sh) EXCEPT !.priority = p @@ (1 :> 1) @@ (Root :> 1000),
                                 !.num_epochs = n] :
               p \in [2 .. 5 -> {1, 3}],
               n \in IF sh.mode = "launch" THEN {1, 2} ELSE {1}} :
           sh \in TreeShapes}

\* a checkpointer that is set up before the stateful units beside it, in
\* runs that write a checkpoint and are run again, resumed or not
EarlyFamily ==
    {[Defaults(sh) EXCEPT !.save_every = Some(2), !.num_epochs = 2,
                          !.priority = [u \in Units |->
                              IF u = Root THEN 1000
                              ELSE IF sh.kind[u] = "Checkpointer" THEN 5
                              ELSE 3],
                          !.dirs = {5}, !.rerun = TRUE] :
        sh \in {x \in Shapes : /\ Of(x, "Checkpointer") # {}
                               /\ \E u \in Of(x, "Checkpointer") :
                                     u \in Range(x.given[Root])}}

\* launchers told to run no epoch at all
EpochFamily ==
    {[Defaults(sh) EXCEPT !.num_epochs = 0] :
        sh \in {x \in Shapes : x.mode = "launch"}}

Configs ==
    EarlyFamily \cup EpochFamily \cup TreeFamily \cup SharedFamily \cup DeepFamily \cup OrderFamily
    \cup RepeatFamily \cup GateFamily \cup CheckpointFamily
    \cup DirectoryFamily \cup ResumeFamily \cup NestFamily

-----------------------------------------------------------------------------
(* The caller: Launcher.launch, or a user who drives a pipeline directly *)

At(at, epoch, i) == [at |-> at, epoch |-> epoch, i |-> i]

Cur == [args |-> args, caps |-> caps, accel |-> accel, attrs |-> attrs,
        fs |-> fs, log |-> log, err |-> err]

\* the caller goes on at `next`, or the exception of the step reaches it
Step(st, next) ==
    /\ caps' = st.caps
    /\ accel' = st.accel
    /\ attrs' = st.attrs
    /\ fs' = st.fs
    /\ log' = st.log
    /\ err' = st.err
    /\ pc' = IF Ok(st) THEN next ELSE At("failed", pc.epoch, pc.i)
    /\ UNCHANGED args

Init ==
    \E a \in Configs :
        /\ args = a
        /\ caps = Build(a)
        /\ accel = [NewAccelerator(a.is_main_process)
                       EXCEPT !.custom_objects = a.pre,
                              !.dataloaders = Prepared(a.loaders, a.dlen),
                              !.created = Len(a.loaders)]
        /\ attrs = [batch |-> None, looper |-> None, launcher |-> None,
                    checkpointer |-> a.checkpointer]
        /\ fs = [d \in a.dirs |-> <<>>]
        /\ log = <<>>
        /\ err = ConstructionError(a)
        /\ pc = At(IF ConstructionError(a) # NoErr THEN "unbuilt"
                   ELSE IF a.mode = "launch" THEN "start" ELSE "unbound", 0, 0)

\* the script calls launcher.resume(path, load_capsules) before the launch
UserResume ==
    /\ pc.at = "start"
    /\ caps[Root].resume_from = None
    /\ \E path \in DOMAIN fs, load_capsules \in BOOLEAN :
          caps' = [caps EXCEPT ![Root] = resume(path, load_capsules, @)]
    /\ UNCHANGED <<args, accel, attrs, fs, log, err, pc>>

\* the script is run again in a new process, with a topology and a resume
\* directive of its own: the pipeline is built anew, the checkpoints remain
Rerun ==
    /\ pc.at = "done"
    /\ args.rerun
    /\ \E t \in Topologies, ck \in Directives(DOMAIN fs) :
          /\ args' = [args EXCEPT !.rerun = FALSE, !.num_procs = t[1],
                                  !.num_nodes = t[2], !.checkpointer = ck,
                                  !.dirs = DOMAIN fs]
          /\ attrs' = [batch |-> None, looper |-> None, launcher |-> None,
                       checkpointer |-> ck]
    /\ caps' = Build(args')
    /\ accel' = NewAccelerator(args.is_main_process)
    /\ log' = <<>>
    /\ err' = NoErr
    /\ pc' = At("start", 0, 0)
    /\ UNCHANGED fs

\* Launcher.launch up to the end of self.setup(attrs)
LaunchSetup ==
    /\ pc.at = "start"
    /\ Step(Return(SETUP, Root, Root,
                   LauncherSetup(Root,
                       Note(Note(notebook(Root, Cur),
                                 Entry("recv", LAUNCH, Root, User, 0)),
                            Entry("recv", SETUP, Root, Root, 0)))),
            At("resume", 0, 0))

\* for epoch in range(0, self._num_epochs)
ResumedFromZero(st1) == Step(st1, At("epoch", 0, 0))

\* for epoch in range(self._epoch_idx, self._num_epochs)
Resumed(st1) == Step(st1, At("epoch", st1.caps[Root].epoch_idx, 0))

\* Launcher.launch: self._resume(attrs) and the range of the epoch loop
LaunchResume ==
    /\ pc.at = "resume"
    /\ Resumed(LauncherResume(Root, Cur))

\* Launcher.launch: the head of the epoch loop
LaunchEpoch ==
    /\ pc.at = "epoch"
    /\ IF pc.epoch < caps[Root].num_epochs
       THEN Step(Note([Cur EXCEPT
                         !.attrs.launcher =
                             Some([Val(@) EXCEPT !.epoch_idx = Some(pc.epoch)]),
                         !.caps[Root].epoch_idx = pc.epoch],
                      Entry("epoch", LAUNCH, Root, Root, pc.epoch)),
                 IF caps[Root].capsules = <<>>
                 THEN At("epoch", pc.epoch + 1, 0)
                 ELSE At(SET, pc.epoch, 1))
       ELSE Step(Cur, At(DESTROY, pc.epoch, 0))

\* an epoch loop that sweeps all children with one event after the other
AfterChildSweep(ev, epoch, i, n) ==
    CASE ev = SET -> IF i < n THEN At(SET, epoch, i + 1)
                     ELSE At(LAUNCH, epoch, 1)
      [] ev = LAUNCH -> IF i < n THEN At(LAUNCH, epoch, i + 1)
                        ELSE At(RESET, epoch, 1)
      [] ev = RESET -> IF i < n THEN At(RESET, epoch, i + 1)
                       ELSE At("epoch", epoch + 1, 0)

\* the position after child i of the launcher has handled event ev
AfterChild(ev, epoch, i, n) ==
    CASE ev = SET -> At(LAUNCH, epoch, i)
      [] ev = LAUNCH -> At(RESET, epoch, i)
      [] ev = RESET -> IF i < n THEN At(SET, epoch, i + 1)
                       ELSE At("epoch", epoch + 1, 0)

\* Launcher.launch: capsule.set(attrs), capsule.launch(attrs) or
\* capsule.reset(attrs) of the current child
LaunchChild ==
    /\ pc.at \in {SET, LAUNCH, RESET}
    /\ Step(Dispatch(pc.at, caps[Root].capsules[pc.i], Root, Cur),
            AfterChild(pc.at, pc.epoch, pc.i, Len(caps[Root].capsules)))

\* Launcher.launch: self.destroy(attrs) and the return to the caller
LaunchDestroy ==
    /\ pc.at = DESTROY
    /\ Step(Return(LAUNCH, Root, User,
                   Return(DESTROY, Root, Root,
                       LauncherDestroy(Root,
                           Note(Cur, Entry("recv", DESTROY, Root, Root,
                                           Index(Root, Cur)))))),
            At("done", pc.epoch, 0))

\* the user binds the pipeline to the accelerator: root.accelerate(acc)
UserAccelerate ==
    /\ pc.at = "unbound"
    /\ Step([Cur EXCEPT !.caps = Accelerate(Root, @)], At("bound", 0, 0))

\* the user sets the pipeline up: root.dispatch(Events.SETUP, attrs)
UserSetup ==
    /\ pc.at \in {"unbound", "bound"}
    /\ Step(Dispatch(SETUP, Root, User, Cur), At("up", 0, 0))

\* the user sets up one unit of a pipeline that has no accelerator:
\* unit.dispatch(Events.SETUP, attrs)
UserSetupUnit ==
    /\ pc.at = "unbound"
    /\ \E u \in Units \ {Root} :
          Step(Dispatch(SETUP, u, User, Cur), At("up", 0, u))

\* the user tears the pipeline down: root.dispatch(Events.DESTROY, attrs)
UserDestroy ==
    /\ pc.at = "up"
    /\ Step(Dispatch(DESTROY, Root, User, Cur), At("down", 0, 0))

\* the user tears down one unit of the pipeline that is set up, in an order
\* of their choice: unit.dispatch(Events.DESTROY, attrs)
UserDestroyUnit ==
    /\ pc.at = "up"
    /\ \E u \in Units \ {Root} :
          Step(Dispatch(DESTROY, u, User, Cur), At("torn", 0, u))

\* the units that implement state_dict and load_state_dict
Persistent ==
    {u \in Units : args.kind[u] \in {"Looper", "Launcher", "Checkpointer",
                                      "Dataset"}}

\* once the run has ended, with or without an exception, the user dumps the
\* state of a unit and loads it back into the same unit
UserRoundTrip ==
    /\ pc.at \in {"done", "failed", "down"}
    /\ \E u \in Persistent :
          /\ caps' = RoundTrip(u, [Cur EXCEPT !.err = NoErr]).caps
          /\ log' = RoundTrip(u, [Cur EXCEPT !.err = NoErr]).log
          /\ pc' = At("reloaded", pc.epoch, u)
    /\ UNCHANGED <<args, accel, attrs, fs, err>>

Next ==
    \/ LaunchSetup
    \/ LaunchResume
    \/ LaunchEpoch
    \/ LaunchChild
    \/ LaunchDestroy
    \/ UserAccelerate
    \/ UserSetup
    \/ UserSetupUnit
    \/ UserDestroy
    \/ UserDestroyUnit
    \/ UserRoundTrip
    \/ UserResume
    \/ Rerun

Spec == Init /\ [][Next]_vars

\* the positions at which the caller stops
Final == {"done", "failed", "down", "reloaded", "torn", "unbuilt"}

Positions ==
    [at : {"start", "resume", "epoch", SET, LAUNCH, RESET, DESTROY, "unbound",
           "bound", "up"} \cup Final,
     epoch : 0 .. MaxEpochs, i : 0 .. 5]

\* the caller moves on: the call it makes returns or raises. Every step of
\* Next changes pc, and a step of Next is possible wherever pc is not final.
Advance == pc.at \notin Final /\ \E p \in Positions : p # pc /\ pc' = p

\* the process runs on while a step remains: no handler blocks
FairSpec == Spec /\ WF_pc(Advance)

-----------------------------------------------------------------------------
(* Reading the history *)

Ix == DOMAIN log

Is(i, t, ev, u) == log[i].t = t /\ log[i].ev = ev /\ log[i].u = u

UnitsOf(entries) == [i \in DOMAIN entries |-> entries[i].u]

\* the units to which dispatcher d has delivered event ev, in order
Deliveries(d, ev) ==
    UnitsOf(SelectSeq(log, LAMBDA e : e.t = "recv" /\ e.ev = ev
                                      /\ e.by = d /\ e.u # d))

\* the units pushed on the registry, and the objects popped from it, in order
Pushed == UnitsOf(SelectSeq(log, LAMBDA e : e.t = "push"))
Popped == [i \in DOMAIN SelectSeq(log, LAMBDA e : e.t = "pop") |->
              SelectSeq(log, LAMBDA e : e.t = "pop")[i].x]

\* the DESTROY of the whole pipeline has been requested
DestroyStarted == \E i \in Ix : Is(i, "recv", DESTROY, Root)

\* the registry as it was before the SETUP of the pipeline
RegistryBefore == IF args.mode = "launch" THEN <<>> ELSE args.pre

\* a pipeline of capsules, dispatchers and loopers only
PlainPipeline ==
    /\ \A u \in Units : args.kind[u] \in {"Capsule", "Dispatcher", "Looper",
                                          "Launcher"}
    /\ args.kind[Root] = "Launcher" => caps[Root].resume_from = None

Dispatchers == {u \in Units : args.kind[u] \in {"Dispatcher", "Looper", "Launcher"}}

Forward == {SETUP, SET, LAUNCH, RESET}

Max(S) == CHOOSE x \in S : \A y \in S : x >= y

\* the activations of loopers: the entries to the body of Looper.launch
LaunchBodies == {i \in Ix : log[i].t = "body" /\ log[i].ev = LAUNCH}

\* where the activation begun at i has returned, or the end of the history
ActivationEnd(i) ==
    LET rets == {j \in Ix : j > i /\ Is(j, "ret", LAUNCH, log[i].u)}
    IN IF rets = {} THEN Len(log) + 1 ELSE Min(rets)

Completed(i) == ActivationEnd(i) <= Len(log)

\* the LAUNCH broadcasts of the activation begun at i
Broadcasts(i) ==
    LET end == ActivationEnd(i)
    IN {j \in (i + 1) .. (end - 1) : Is(j, "iter", LAUNCH, log[i].u)}

\* the votes cast during the activation begun at i
Votes(i) ==
    LET end == ActivationEnd(i)
    IN {v \in (i + 1) .. (end - 1) : log[v].t = "vote"}

\* the votes cast during the iteration begun at j of the activation i
VotesIn(i, j) ==
    LET made == Broadcasts(i)
        end == Min({m \in made : m > j} \cup {ActivationEnd(i)})
    IN {v \in (j + 1) .. (end - 1) : log[v].t = "vote"}

\* the launcher is about to call set, launch or reset of a looper
AtLooper ==
    /\ pc.at \in {SET, LAUNCH, RESET}
    /\ args.kind[caps[Root].capsules[pc.i]] = "Looper"

\* the epoch the buffer shows to the handlers
EpochIndex == Val(Val(attrs.launcher).epoch_idx)

\* the Dataset children of the looper L
DatasetsOf(L) ==
    {d \in Range(caps[L].capsules) : args.kind[d] = "Dataset"}

RECURSIVE SumOver(_, _)
SumOver(f, S) ==
    IF S = {} THEN 0
    ELSE LET x == CHOOSE y \in S : TRUE IN f[x] + SumOver(f, S \ {x})

\* the activations of checkpointers on the primary process with a period
CheckpointRuns ==
    {i \in Ix : /\ log[i].t = "recv" /\ log[i].ev = LAUNCH
                 /\ args.kind[log[i].u] = "Checkpointer"}

\* the return of the checkpointer activation begun at i, 0 if it has none
ReturnOf(i) ==
    LET rets == {j \in Ix : j > i /\ Is(j, "ret", LAUNCH, log[i].u)}
    IN IF rets = {} THEN 0 ELSE Min(rets)

\* the activation begun at i has written a snapshot
Saved(i) == i < Len(log) /\ Is(i + 1, "save", LAUNCH, log[i].u)

\* the activation begun at i was refused by the overwrite guard
Refused(i) ==
    /\ i < Len(log)
    /\ Is(i + 1, "raise", "OverwriteDeniedError", log[i].u)
    /\ ~args.overwrite
    /\ log[i].x \in args.dirs

Primary == args.is_main_process

Period(u) == caps[u].save_every

\* the directory d existed when the activation begun at i started
ExistedAt(i, d) ==
    \/ d \in args.dirs
    \/ \E j \in 1 .. (i - 1) : log[j].t = "save" /\ log[j].x = d

\* the activation begun at i is due to save into an existing directory
DueIntoExisting(i) ==
    /\ Primary
    /\ Period(log[i].u) > 0
    /\ (log[i].x + 1) % Period(log[i].u) = 0
    /\ ExistedAt(i, log[i].x)

\* the restorations of the state of checkpointer u from a checkpoint
LoadsInto(u) == {i \in Ix : Is(i, "load", SETUP, u) /\ log[i].by # User}

\* the directory of the checkpoint from which the state was loaded at i
RestoredFrom(i) ==
    log[Max({r \in 1 .. i : log[r].t = "restore"})].x

\* the activations of checkpointer u after the entry i
RunsAfter(u, i) == {a \in CheckpointRuns : log[a].u = u /\ a > i}

\* the epochs the launcher has begun, in order
Epochs ==
    [j \in DOMAIN SelectSeq(log, LAMBDA e : e.t = "epoch") |->
        SelectSeq(log, LAMBDA e : e.t = "epoch")[j].x]

\* the epoch index of the launcher when setup and resume have returned: 0,
\* or the index in the state that the last restore loaded into it
StartEpoch ==
    IF LoadsInto(Root) = {} THEN 0
    ELSE fs[RestoredFrom(Max(LoadsInto(Root)))]
           [log[Max(LoadsInto(Root))].x].epoch_idx

\* the calls of set, launch and reset the launcher has made
EpochCalls ==
    {k \in Ix : /\ log[k].t = "recv" /\ log[k].by = Root /\ log[k].u # Root
                 /\ log[k].ev \in {SET, LAUNCH, RESET}}

\* the handlers of LAUNCH that found a batch in the buffer
Sights == {k \in Ix : log[k].t = "see" /\ log[k].x # None}

\* the iterations of loopers that are under way at the entry k
IterationsAt(k) ==
    {j \in 1 .. k - 1 :
        /\ log[j].t = "iter"
        /\ ~\E m \in j + 1 .. k : \/ Is(m, "iter", LAUNCH, log[j].u)
                                   \/ Is(m, "ret", LAUNCH, log[j].u)}

\* the dataset launches between the entries j and k that began with the
\* batch index of the batch b and put a batch into the buffer
Produced(b, j, k) ==
    {p \in j + 1 .. k - 1 :
        /\ Is(p, "recv", LAUNCH, b.src) /\ log[p].x = b.idx
        /\ \E r \in p + 1 .. k : Is(r, "ret", LAUNCH, b.src)
                                  /\ log[r].x = b.idx + 1}

\* the units of the tree of u in depth-first pre-order: a dispatcher before
\* its children, the children in the order of its sorted list
RECURSIVE PreOrder(_)
RECURSIVE PreOrderAll(_, _)
PreOrder(u) ==
    IF caps[u].kind \in {"Dispatcher", "Looper", "Launcher"}
    THEN <<u>> \o PreOrderAll(caps[u].capsules, 1)
    ELSE <<u>>
PreOrderAll(capsules, i) ==
    IF i > Len(capsules) THEN <<>>
    ELSE PreOrder(capsules[i]) \o PreOrderAll(capsules, i + 1)

\* the stateful units among them, in that order
StatefulPreOrder == SelectSeq(PreOrder(Root), LAMBDA u : caps[u].statefull)

\* the SETUP of the whole pipeline has returned and nothing has followed
JustSetUp ==
    \/ args.mode = "launch" /\ pc.at = "resume"
    \/ args.mode = "direct" /\ pc.at = "up" /\ pc.i = Root

\* the buffer tells the checkpointer to restore without the capsules
PartialDirective ==
    /\ args.checkpointer # None
    /\ Val(args.checkpointer).resume # None
    /\ ~Val(args.checkpointer).strict

\* the objects whose states the checkpoint d holds, in the order of saving
SavedBy(d) == [i \in DOMAIN fs[d] |-> fs[d][i].of]

\* the states that restores have loaded into units of the pipeline
Loads == {k \in Ix : log[k].t = "load" /\ log[k].by # User}

\* the registry when the entry r was made, in a run in which no restore
\* has emptied it: the units that had registered
PushedBefore(r) ==
    UnitsOf(SelectSeq(SubSeq(log, 1, r), LAMBDA e : e.t = "push"))

\* the launcher is about to restore the full state from the checkpoint d
FullResumeFrom(d) ==
    /\ args.mode = "launch"
    /\ pc.at = "resume"
    /\ caps[Root].resume_from = Some(d)
    /\ caps[Root].load_capsules
    /\ d \in DOMAIN fs

\* the restores of the full state that checkpointers have begun
StrictRestores ==
    {r \in Ix : /\ log[r].t = "restore"
                 /\ args.kind[log[r].u] = "Checkpointer"
                 /\ args.checkpointer # None
                 /\ Val(args.checkpointer).strict
                 /\ log[r].x \in DOMAIN fs}

\* the launcher is about to call launch of a checkpointer
AtCheckpointer ==
    /\ pc.at = LAUNCH
    /\ args.kind[caps[Root].capsules[pc.i]] = "Checkpointer"

\* every registered object returns a state from state_dict
Serializable ==
    \A o \in Range(accel.custom_objects) : StateDict(o, Cur) # None

\* the topologies recorded in the states of the checkpoint at path
SavedTopologies(path) ==
    {<<fs[path][i].num_procs, fs[path][i].num_nodes>> :
        i \in {j \in DOMAIN fs[path] : "num_procs" \in DOMAIN fs[path][j]}}

\* the topology of the current run, which the launcher puts into the buffer
CurrentTopology == <<args.num_procs, args.num_nodes>>

\* the checkpoint at path was saved under another topology than the current
TopologyDiffers(path) ==
    /\ path \in DOMAIN fs
    /\ SavedTopologies(path) # {}
    /\ SavedTopologies(path) # {CurrentTopology}

\* the calls of set and launch the launcher has made to its children
ChildCalls ==
    {i \in Ix : /\ log[i].t = "recv" /\ log[i].by = Root /\ log[i].u # Root
                 /\ log[i].ev \in {SET, LAUNCH}}

\* the buffer holds no resume path for the checkpointer
NoDirective ==
    args.checkpointer # None /\ Val(args.checkpointer).resume = None

\* Launcher.setup has returned to Launcher.launch
SetupReturned == \E i \in Ix : Is(i, "ret", SETUP, Root)

\* the constructors of the pipeline have returned
Constructed == pc.at # "unbuilt"

\* the unit u has loaded no state: its fields are those of its own run
Fresh(u) == ~\E i \in Ix : log[i].t = "load" /\ log[i].u = u

\* the units below u in the tree the script has built
RECURSIVE Below(_)
Below(u) ==
    IF caps[u].kind \in {"Dispatcher", "Looper", "Launcher"}
    THEN Range(caps[u].capsules)
         \cup UNION {Below(c) : c \in Range(caps[u].capsules)}
    ELSE {}

\* the loopers the script has built
Loopers == {u \in Units : caps[u].kind = "Looper"}

\* the looper u is below no other looper
Outermost(u) == \A l \in Loopers : u \notin Below(l)

\* the Dataset capsules the script has built
Datasets == {u \in Units : caps[u].kind = "Dataset"}

\* the dataloaders of the dataset d that the accelerator a holds
Held(d, a) == {i \in DOMAIN a.dataloaders : a.dataloaders[i].dataset = d}

\* the dataloaders of d on the accelerator to which the pipeline is about to
\* be bound: that of the user, or the new one of the launcher
HeldBefore(d) ==
    IF args.mode = "launch" THEN {} ELSE Held(d, accel)

\* the caller is about to set the pipeline up
AtSetup == pc.at \in {"start", "bound"}

\* the exception raised at r has left the handler that raised it
Thrown(r) ==
    /\ log[r].t = "raise"
    /\ ~(r + 1 \in Ix /\ log[r + 1].t = "caught")

\* the call begun at i has not returned: it is on the stack, or it raised
Open(i) ==
    ~\E k \in Ix : k > i /\ Is(k, "ret", log[i].ev, log[i].u)
                          /\ log[k].by = log[i].by

\* the entry i is a call made by a broadcast of a dispatcher: every call of
\* a dispatcher or looper to a child, and those of the launcher in its setup
\* and destroy (in the epoch loop it calls its children one by one)
Broadcasted(i) ==
    /\ log[i].t = "recv"
    /\ log[i].by \in Units
    /\ log[i].by # log[i].u
    /\ log[i].by = Root /\ args.kind[Root] = "Launcher"
          => log[i].ev \in {SETUP, DESTROY}

\* where the broadcast that made the call i began: the call of the handler
\* of the dispatcher, or the iteration of the looper
BroadcastStart(i) ==
    Max({j \in 1 .. i - 1 :
            \/ Is(j, "recv", log[i].ev, log[i].by)
            \/ Is(j, "iter", log[i].ev, log[i].by)})

\* the order in which the dispatcher p visits its children for ev
VisitOrder(p, ev) ==
    IF ev = DESTROY THEN DestroyOrder(caps[p].capsules) ELSE caps[p].capsules

\* the restorations the launcher has begun: its calls of load_state
Restorations == {i \in Ix : log[i].t = "restore" /\ log[i].u = Root}

\* the SET and LAUNCH events that units other than the launcher received
Activations ==
    {k \in Ix : /\ log[k].t = "recv" /\ log[k].u # Root
                 /\ log[k].ev \in {SET, LAUNCH}}

\* where the call i returned to its caller
CallEnd(i) ==
    Min({k \in Ix : k > i /\ Is(k, "ret", log[i].ev, log[i].u)
                            /\ log[k].by = log[i].by})

\* the tree of u is one of dispatchers and of units that are no dispatchers
PlainTree(u) ==
    /\ caps[u].kind = "Dispatcher"
    /\ \A v \in Below(u) : caps[v].kind \notin {"Looper", "Launcher"}

\* the ends of the iterations of loopers: the reads of the terminate flag
Checks == {c \in Ix : log[c].t = "check"}

\* where the iteration that ends with the check c began
IterationOf(c) == Max({j \in 1 .. c : Is(j, "iter", LAUNCH, log[c].u)})

\* the votes cast in the iteration that ends with the check c
VotesBefore(c) == {v \in IterationOf(c) .. c : log[v].t = "vote"}

\* the children that received LAUNCH from the looper in that iteration
Launched(c) ==
    UnitsOf(SelectSeq(SubSeq(log, IterationOf(c), c),
                      LAMBDA e : e.t = "recv" /\ e.ev = LAUNCH
                                 /\ e.by = log[c].u /\ e.u # log[c].u))

\* the iterations the looper of the check c began after it
IterationsAfter(c) ==
    {j \in Ix : /\ j > c /\ Is(j, "iter", LAUNCH, log[c].u)
                 /\ ~\E r \in c .. j : Is(r, "ret", LAUNCH, log[c].u)}

Checkpointers == {u \in Units : args.kind[u] = "Checkpointer"}

Received(ev, u) == \E i \in Ix : Is(i, "recv", ev, u)

Returned(ev, u) == \E i \in Ix : Is(i, "ret", ev, u)

RaisedBy(u, name) == \E i \in Ix : Is(i, "raise", name, u)

\* the launch is between Launcher.setup and Launcher._resume, or it has
\* failed inside Launcher.setup
AfterSetup == pc.at = "resume" \/ (pc.at = "failed" /\ ~SetupReturned)

\* the buffer tells the checkpointer to resume from path, with the states of
\* the capsules if strict, and that checkpoint records a topology
Directed(path, strict) ==
    /\ args.checkpointer = Some([resume |-> Some(path), strict |-> strict])
    /\ path \in DOMAIN fs
    /\ SavedTopologies(path) # {}

\* the topology fields of the unit u
TopologyOf(u) == <<caps[u].num_procs, caps[u].num_nodes>>

\* the first position of x in the sequence s
Pos(s, x) == Min({i \in DOMAIN s : s[i] = x})

\* the calls a composite made to its children
CompositeCalls ==
    {i \in Ix : /\ log[i].t = "recv" /\ log[i].by \in Units
                 /\ log[i].u # log[i].by}

\* the checkpoints written in this run that no later save has replaced
Snapshots ==
    {i \in Ix : /\ log[i].t = "save"
                 /\ ~\E k \in Ix : k > i /\ log[k].t = "save"
                                       /\ log[k].x = log[i].x}

\* no state had been loaded into the unit u when the entry i was written
FreshAt(u, i) == ~\E k \in 1 .. i : log[k].t = "load" /\ log[k].u = u

\* the iteration of the looper u that was under way at the entry i
Underway(u, i) ==
    {j \in 1 .. i : /\ Is(j, "iter", LAUNCH, u)
                    /\ ~\E r \in j .. i : Is(r, "ret", LAUNCH, u)
                    /\ ~\E r \in j + 1 .. i : Is(r, "iter", LAUNCH, u)}

\* the number of repeats of the activation in which the check c was made
RepeatsOf(c) ==
    log[Max({i \in LaunchBodies : i < c /\ log[i].u = log[c].u})].x

\* the objects that the entries of the history after the first n took off
\* the registry, last first
RECURSIVE PoppedSince(_, _)
PoppedSince(h, n) ==
    IF Len(h) <= n THEN <<>>
    ELSE IF h[Len(h)].t = "pop"
         THEN <<h[Len(h)].x>> \o PoppedSince(SubSeq(h, 1, Len(h) - 1), n)
         ELSE PoppedSince(SubSeq(h, 1, Len(h) - 1), n)

\* the illegal teardowns among the entries of the history h after the first n
IllegalTeardowns(h, n) ==
    {r \in n + 1 .. Len(h) :
        h[r].t = "raise" /\ h[r].ev = "IllegalTeardownError"}

-----------------------------------------------------------------------------
(* Claims *)

\* C1: registration symmetry. Once the DESTROY of a pipeline of capsules,
\* dispatchers and loopers that was set up has been requested, no exception
\* is raised, every pop returned the destroying unit, the objects popped are
\* the units pushed at SETUP in reverse order, and when DESTROY has returned
\* the registry holds what it held before SETUP.
C1_RegistrationSymmetry ==
    (PlainPipeline /\ DestroyStarted) =>
        /\ err = NoErr
        /\ \A i \in Ix : log[i].t = "pop" => log[i].x = log[i].u
        /\ \A i \in DOMAIN Popped :
              /\ i <= Len(Pushed)
              /\ Popped[i] = Pushed[Len(Pushed) + 1 - i]
        /\ pc.at \in {"done", "down"} =>
              /\ Len(Popped) = Len(Pushed)
              /\ accel.custom_objects = RegistryBefore

\* C1 witness: a pipeline with registered objects of somebody else was set up
\* and torn down, and at least three of its units had registered
C1_Witness ==
    /\ PlainPipeline
    /\ pc.at = "down"
    /\ args.pre # <<>>
    /\ Len(Pushed) >= 3
    /\ Len(Popped) = Len(Pushed)

\* C2: priority determinism. Every dispatcher delivers SETUP, SET, LAUNCH and
\* RESET to its children in descending priority and DESTROY in ascending
\* priority, each broadcast reaches each child once, every broadcast of an
\* event repeats the order of the first one, and the DESTROY order is the
\* SETUP order reversed.
C2_PriorityDeterminism ==
    \A d \in Dispatchers : \A ev \in Events :
        LET del == Deliveries(d, ev)
            up == Deliveries(d, SETUP)
            n == Len(args.given[d])
        IN /\ \A i \in DOMAIN del :
                 /\ del[i] \in Range(args.given[d])
                 /\ i > n => del[i] = del[i - n]
                 /\ (i > 1 /\ (i - 1) % n # 0) =>
                       /\ del[i] # del[i - 1]
                       /\ ev \in Forward =>
                            args.priority[del[i - 1]] >= args.priority[del[i]]
                       /\ ev = DESTROY =>
                            args.priority[del[i - 1]] <= args.priority[del[i]]
                 /\ \A j \in DOMAIN del :
                       (j < i /\ i - j < n /\ (j - 1) \div n = (i - 1) \div n)
                           => del[j] # del[i]
           /\ ev = DESTROY =>
                 \A i \in DOMAIN del :
                     /\ Len(up) = n
                     /\ del[i] = up[n + 1 - i]

\* C2 witness: a dispatcher built from children of priorities 5, 1, 3 has
\* delivered LAUNCH in the order 5, 3, 1 and DESTROY in the order 1, 3, 5
C2_Witness ==
    /\ pc.at = "done"
    /\ args.kind[1] = "Dispatcher"
    /\ args.given[1] = <<2, 3, 4>>
    /\ <<args.priority[2], args.priority[3], args.priority[4]>> = <<5, 1, 3>>
    /\ Deliveries(1, LAUNCH) = <<2, 4, 3>>
    /\ Deliveries(1, DESTROY) = <<3, 4, 2>>

\* what Launcher.launch did in its epoch loop: the epochs it began and the
\* calls of set, launch and reset it made and saw return
EpochLoop ==
    SelectSeq(log, LAMBDA e : e.by = Root /\ e.u # Root
                              /\ e.t \in {"recv", "ret"}
                              /\ e.ev \in {SET, LAUNCH, RESET})

\* C3: in every epoch the launcher calls set, launch and reset of one child
\* and sees each return before the next call, and only then turns to the
\* next child, taking the children in descending priority.
C3_ChildSequence ==
    Constructed =>
    LET order == caps[Root].capsules
        n == Len(order)
        calls == <<SET, SET, LAUNCH, LAUNCH, RESET, RESET>>
        loop == EpochLoop
    IN /\ \A i \in DOMAIN order : \A j \in DOMAIN order :
             i < j => args.priority[order[i]] >= args.priority[order[j]]
       /\ \A j \in DOMAIN loop :
             LET child == ((j - 1) \div 6) % n
                 call == (j - 1) % 6
             IN /\ loop[j].u = order[child + 1]
                /\ loop[j].ev = calls[call + 1]
                /\ loop[j].t = IF call % 2 = 0 THEN "recv" ELSE "ret"

\* C3 witness: a launcher with three children has run two epochs
C3_Witness ==
    /\ pc.at = "done"
    /\ Len(caps[Root].capsules) = 3
    /\ caps[Root].num_epochs >= 2
    /\ Len(EpochLoop) = 6 * 3 * caps[Root].num_epochs

C5_AnyVoteEnds ==
    \A i \in LaunchBodies : Completed(i) =>
        LET made == Broadcasts(i) IN
        \A j \in made :
            (log[j].x < log[i].x
             /\ \E v \in VotesIn(i, j) : log[v].x = 1)
                => Cardinality(made) = log[j].x + 1

\* C5: termination voting. If the last vote cast during iteration k of an
\* activation is a vote to terminate, so that the flag is set when the
\* broadcast of iteration k ends, the looper makes exactly k + 1 broadcasts.
C5_LastVoteEnds ==
    \A i \in LaunchBodies :
        LET made == Broadcasts(i) IN
        \A j \in made :
            LET votes == VotesIn(i, j) IN
            (votes # {} /\ log[Max(votes)].x = 1)
                => Cardinality(made) = log[j].x + 1

\* C5 witness: an activation of two repeats has returned after one broadcast,
\* ended by a vote in iteration 0
C5_Witness ==
    \E i \in LaunchBodies :
        /\ Completed(i)
        /\ log[i].x = 2
        /\ Cardinality(Broadcasts(i)) = 1
        /\ \E j \in Broadcasts(i) :
              VotesIn(i, j) # {} /\ log[Max(VotesIn(i, j))].x = 1

\* C6: epoch gating. When the launcher calls set, launch or reset of a looper
\* in epoch e, the body runs if e mod run_every = 0; otherwise the call
\* returns at once: no child receives the event, and the buffer, the fields
\* of every unit, the registry and the snapshots are unchanged.
C6_EpochGating ==
    [][AtLooper =>
        LET L == caps[Root].capsules[pc.i]
            new == SelectSeq(SubSeq(log', Len(log) + 1, Len(log')),
                             LAMBDA e : e.t # "see")
        IN IF EpochIndex % caps[L].run_every = 0
           THEN /\ Len(new) >= 2
                /\ new[2].t = "body"
                /\ new[2].ev = pc.at
                /\ new[2].u = L
           ELSE /\ SubSeq(log', 1, Len(log)) = log
                /\ new = <<Entry("recv", pc.at, L, Root, 0),
                           Entry("ret", pc.at, L, Root, 0)>>
                /\ attrs' = attrs
                /\ caps' = caps
                /\ accel' = accel
                /\ fs' = fs
                /\ err' = NoErr]_vars

\* C6 witness: a looper with run_every = 2 was called in three epochs and
\* has run each of its three bodies in two of them
C6_Witness ==
    /\ pc.at = "done"
    /\ \E L \in Units :
          /\ args.kind[L] = "Looper"
          /\ caps[L].run_every = 2
          /\ \A ev \in {SET, LAUNCH, RESET} :
                /\ Cardinality({i \in Ix : Is(i, "recv", ev, L)}) = 3
                /\ Cardinality({i \in Ix : Is(i, "body", ev, L)}) = 2

\* C7 as stated: the SET of a looper built without a count resolves repeats
\* to the sum of the totals of its Dataset children, and fails with
\* UnboundedLoopError if it has no Dataset child.
C7_RepeatResolution ==
    [][(AtLooper /\ pc.at = SET
        /\ args.repeats[caps[Root].capsules[pc.i]] = None
        /\ EpochIndex % caps[caps[Root].capsules[pc.i]].run_every = 0) =>
        LET L == caps[Root].capsules[pc.i]
            total == [d \in Units |-> IF args.kind[d] = "Dataset"
                                      THEN caps'[d].total ELSE 0]
        IN IF DatasetsOf(L) = {}
           THEN err' = "UnboundedLoopError"
           ELSE /\ err' = NoErr
                /\ caps'[L].repeats = Some(SumOver(total, DatasetsOf(L)))]_vars

\* C8 as stated: the SET of a looper built with a count n >= 0 resolves
\* repeats to n.
C8_UserCount ==
    [][(AtLooper /\ pc.at = SET
        /\ args.repeats[caps[Root].capsules[pc.i]] # None
        /\ EpochIndex % caps[caps[Root].capsules[pc.i]].run_every = 0) =>
        /\ err' = NoErr
        /\ caps'[caps[Root].capsules[pc.i]].repeats
              = args.repeats[caps[Root].capsules[pc.i]]]_vars

\* C9 as stated: on the primary process with a period s > 0, the activation
\* of a checkpointer that has loaded no state and starts with index k writes
\* a snapshot if and only if (k + 1) mod s = 0, into the directory k, and the
\* index equals the number of activations that returned.
C9_SaveIffDue ==
    \A i \in CheckpointRuns :
        (Primary /\ Period(log[i].u) > 0 /\ Fresh(log[i].u)) =>
            /\ Saved(i) <=> (log[i].x + 1) % Period(log[i].u) = 0
            /\ Saved(i) => log[i + 1].x = log[i].x
            /\ caps[log[i].u].iter_idx
                  = Cardinality({j \in Ix : Is(j, "ret", LAUNCH, log[i].u)})

\* C9: checkpoint cadence. On the primary process with a period s > 0, the
\* activation of a checkpointer that has loaded no state and starts with
\* index k writes a snapshot only if (k + 1) mod s = 0 and only into the
\* directory k; when (k + 1) mod s = 0 it writes one unless the directory k
\* exists and overwrite is false, and then it raises; the index equals the
\* number of activations that returned.
C9_CheckpointCadence ==
    \A i \in CheckpointRuns :
        (Primary /\ Period(log[i].u) > 0 /\ Fresh(log[i].u)) =>
            /\ Saved(i) => /\ (log[i].x + 1) % Period(log[i].u) = 0
                           /\ log[i + 1].x = log[i].x
            /\ (log[i].x + 1) % Period(log[i].u) = 0
                  => (Saved(i) \/ Refused(i))
            /\ ~(Saved(i) /\ Refused(i))
            /\ caps[log[i].u].iter_idx
                  = Cardinality({j \in Ix : Is(j, "ret", LAUNCH, log[i].u)})

\* C9 witness: with a period of 2 the checkpointer has run six times and
\* written the snapshots 1, 3 and 5 and no other
C9_Witness ==
    /\ pc.at = "done"
    /\ Primary
    /\ \E u \in Units :
          /\ args.kind[u] = "Checkpointer"
          /\ Period(u) = 2
          /\ caps[u].iter_idx = 6
          /\ {log[i].x : i \in {j \in Ix : log[j].t = "save"}} = {1, 3, 5}

\* C10 as stated: every activation of the checkpointer that returns has
\* increased the index by 1, whatever the period and the process.
C10_AlwaysCounts ==
    \A i \in CheckpointRuns :
        ReturnOf(i) # 0 => log[ReturnOf(i)].x = log[i].x + 1

\* C10: an activation of the checkpointer that returns has increased the
\* index by exactly 1 on the primary process with a period s > 0, whether or
\* not a snapshot was due, and has left it unchanged on any other process
\* and with saving disabled.
C10_CountsWhenActive ==
    \A i \in CheckpointRuns :
        ReturnOf(i) # 0 =>
            log[ReturnOf(i)].x =
                log[i].x + (IF Primary /\ Period(log[i].u) > 0 THEN 1 ELSE 0)

\* C10 witness: on a process that is not the primary one a checkpointer
\* with a period has returned from several activations, its index still 0
C10_Witness ==
    /\ pc.at = "done"
    /\ ~Primary
    /\ \E u \in Units :
          /\ args.kind[u] = "Checkpointer"
          /\ Period(u) > 0
          /\ Cardinality({j \in Ix : Is(j, "ret", LAUNCH, u)}) >= 2
          /\ caps[u].iter_idx = 0

\* C11: no activation of a checkpointer writes a snapshot on a process that
\* is not the primary one, nor when its period is negative: the activation
\* returns at once, and no snapshot is ever written in such a run.
C11_NoSnapshotWhenIdle ==
    \A i \in CheckpointRuns :
        (~Primary \/ Period(log[i].u) < 0) =>
            /\ ~Saved(i)
            /\ i < Len(log) => Is(i + 1, "ret", LAUNCH, log[i].u)
            /\ \A j \in Ix : log[j].t # "save"

\* C11 witness: on a process that is not the primary one a checkpointer of
\* period 1, for which every activation is due, has returned from several
\* activations and no snapshot was written
C11_Witness ==
    /\ pc.at = "done"
    /\ ~Primary
    /\ \E u \in Units :
          /\ args.kind[u] = "Checkpointer"
          /\ Period(u) = 1
          /\ Cardinality({j \in Ix : Is(j, "ret", LAUNCH, u)}) >= 2
    /\ \A j \in Ix : log[j].t # "save"
    /\ DOMAIN fs = args.dirs

\* C12 as stated: unit.load_state_dict(unit.state_dict()) leaves every field
\* of a looper, a launcher, a checkpointer or a dataset as it was.
C12_RoundTripIdentity == [][pc'.at = "reloaded" => caps' = caps]_vars

\* C12: unit.load_state_dict(unit.state_dict()) leaves every field of a
\* looper, a launcher or a dataset as it was (index, resolved repeats,
\* topology); of a checkpointer it keeps the topology and every other field
\* and advances the index by exactly one. No other unit changes.
C12_RoundTripState ==
    [][pc'.at = "reloaded" =>
        caps' = [caps EXCEPT ![pc'.i] =
                    IF args.kind[pc'.i] = "Checkpointer"
                    THEN [@ EXCEPT !.iter_idx = @ + 1]
                    ELSE @]]_vars

\* C12 witness: after a run of six activations the state of the checkpointer
\* was dumped and loaded back, and its index is 7
C12_Witness ==
    /\ pc.at = "reloaded"
    /\ args.kind[pc.i] = "Checkpointer"
    /\ Cardinality({j \in Ix : Is(j, "ret", LAUNCH, pc.i)}) = 6
    /\ caps[pc.i].iter_idx = 7
    /\ Is(Len(log), "load", SETUP, pc.i)

\* C13: overwrite guard. An activation of the checkpointer that is due to
\* save into a directory that exists is refused with OverwriteDeniedError if
\* overwrite is false: nothing is written then or later and no field of any
\* unit changes, the index included. If overwrite is true it is not refused:
\* the directory then holds the states of the objects registered at that
\* moment, and the activation returns with the index increased by one
\* provided every registered object can return its state.
C13_OverwriteGuard ==
    /\ [](\A i \in CheckpointRuns : DueIntoExisting(i) =>
            IF ~args.overwrite
            THEN /\ Is(i + 1, "raise", "OverwriteDeniedError", log[i].u)
                 /\ err = "OverwriteDeniedError"
                 /\ \A j \in Ix : j > i => log[j].t \notin {"save", "ret"}
            ELSE Saved(i) /\ log[i + 1].x = log[i].x)
    /\ [][(AtCheckpointer
           /\ Primary
           /\ Period(caps[Root].capsules[pc.i]) > 0
           /\ Due(caps[caps[Root].capsules[pc.i]])
           /\ caps[caps[Root].capsules[pc.i]].iter_idx \in DOMAIN fs) =>
            LET c == caps[Root].capsules[pc.i]
                k == caps[c].iter_idx
            IN IF ~caps[c].overwrite
               THEN /\ err' = "OverwriteDeniedError"
                    /\ fs' = fs
                    /\ caps' = caps
                    /\ accel' = accel
               ELSE /\ k \in DOMAIN fs'
                    /\ fs'[k] = CustomStates(accel.custom_objects, 1, Cur)
                    /\ \A d \in DOMAIN fs : d # k => fs'[d] = fs[d]
                    /\ Serializable =>
                          /\ err' = NoErr
                          /\ caps'[c].iter_idx = k + 1]_vars

\* C13 witness: with overwrite false and a period of 2 the activation with
\* index 1 was refused on the existing directory 1: the directory is as it
\* was, the index is still 1 and nothing was written
C13_Witness ==
    /\ pc.at = "failed"
    /\ err = "OverwriteDeniedError"
    /\ ~args.overwrite
    /\ args.dirs = {1}
    /\ fs = (1 :> <<>>)
    /\ \E u \in Units :
          /\ args.kind[u] = "Checkpointer"
          /\ Period(u) = 2
          /\ caps[u].iter_idx = 1
          /\ Is(Len(log), "raise", "OverwriteDeniedError", u)

\* C14 as stated: a launcher set to resume, with or without the states of
\* the capsules, from a checkpoint saved under another topology makes no
\* call of set or launch to a child, and once its setup has returned and the
\* resume step is over the launch has failed with TopologyMismatchError
\* (the checkpointer itself is not asked to resume).
C14_DriverTopologyGuard ==
    (/\ args.mode = "launch"
     /\ NoDirective
     /\ SetupReturned
     /\ caps[Root].resume_from # None
     /\ TopologyDiffers(Val(caps[Root].resume_from))) =>
        /\ ChildCalls = {}
        /\ pc.at # "resume" => err = "TopologyMismatchError"

C17_DirectivesSupplied ==
    \A u \in Checkpointers :
        (args.mode = "launch" /\ Received(SETUP, u)) =>
            /\ attrs.checkpointer = Some([resume |-> caps[Root].resume_from,
                                          strict |-> caps[Root].load_capsules])
            /\ (caps[Root].resume_from = None /\ ~Returned(SETUP, u)) =>
                   err = NoErr

\* C18: a SETUP dispatched to a unit without an accelerator raises
\* ContextUnboundError in that unit, leaves the registry as it was and
\* pushes nothing, and no other unit receives SETUP: a dispatcher fails
\* before it calls any of its children.
C18_SetupNeedsContext ==
    [][(pc.at = "unbound" /\ log' # log) =>
          /\ pc'.at = "failed"
          /\ err' = "ContextUnboundError"
          /\ accel'.custom_objects = accel.custom_objects
          /\ \E u \in Units :
                log' = <<Entry("recv", SETUP, u, User, 0),
                         Entry("raise", "ContextUnboundError", u, u, 0)>>]_vars

\* C18 witness: the SETUP of a stateful dispatcher with children, given no
\* accelerator, has failed with ContextUnboundError while the registry
\* holds objects of others.
C18_Witness ==
    /\ pc.at = "failed"
    /\ err = "ContextUnboundError"
    /\ \E i \in DOMAIN log : log[i] = Entry("recv", SETUP, Root, User, 0)
    /\ caps[Root].statefull
    /\ caps[Root].capsules # <<>>
    /\ ~caps[Root].accelerator
    /\ accel.custom_objects = <<100, 101>>

\* C19: every pop of Capsule.destroy that returned another object than the
\* destroying unit is followed at once by IllegalTeardownError of that unit;
\* and a DESTROY dispatched to a stateful unit without children, while the
\* registry is not empty and its top is not that unit, removes the top and
\* fails with IllegalTeardownError.
C19_IllegalTeardown ==
    /\ [](\A i \in Ix :
             (log[i].t = "pop" /\ log[i].x # log[i].u) =>
                 /\ i + 1 \in Ix
                 /\ log[i + 1] = Entry("raise", "IllegalTeardownError",
                                       log[i].u, log[i].u, 0))
    /\ [][(/\ pc.at = "up"
            /\ log' # log
            /\ ~IsDispatcher(caps[log'[Len(log) + 1].u])
            /\ caps[log'[Len(log) + 1].u].statefull
            /\ accel.custom_objects # <<>>
            /\ accel.custom_objects[Len(accel.custom_objects)]
                  # log'[Len(log) + 1].u) =>
              /\ pc'.at = "failed"
              /\ err' = "IllegalTeardownError"
              /\ accel'.custom_objects =
                    SubSeq(accel.custom_objects, 1,
                           Len(accel.custom_objects) - 1)]_vars

\* C19 witness: a unit was destroyed before a unit set up after it: the pop
\* returned that later unit, whose fields equal those of the destroying
\* unit, and the DESTROY has failed with IllegalTeardownError.
C19_Witness ==
    /\ pc.at = "failed"
    /\ err = "IllegalTeardownError"
    /\ \E i \in Ix, j, k \in DOMAIN Pushed :
          /\ log[i].t = "pop"
          /\ j < k
          /\ Pushed[j] = log[i].u
          /\ Pushed[k] = log[i].x
          /\ caps[log[i].x] = caps[log[i].u]

\* C20: nested loopers. No looper that was built has a looper among its
\* children; and when the script gives a looper to a looper, the
\* construction has ended with NestedLoopError, the outer looper does not
\* exist and no event was ever dispatched.
C20_NoNestedLooper ==
    /\ \A u \in Units :
          caps[u].kind = "Looper" =>
              \A i \in DOMAIN caps[u].capsules :
                  caps[caps[u].capsules[i]].kind # "Looper"
    /\ \A u \in Units :
          (/\ args.kind[u] = "Looper"
           /\ \E i \in DOMAIN args.given[u] :
                 args.kind[args.given[u][i]] = "Looper") =>
              /\ caps[u] = NotBuilt
              /\ err = "NestedLoopError"
              /\ pc.at = "unbuilt"
              /\ log = <<>>

\* C20 witness: the script gave a looper to a looper; the inner looper was
\* built, the constructor of the outer one has raised NestedLoopError.
C20_Witness ==
    /\ pc.at = "unbuilt"
    /\ err = "NestedLoopError"
    /\ \E u, c \in Units :
          /\ args.kind[u] = "Looper"
          /\ c \in Range(args.given[u])
          /\ caps[c].kind = "Looper"
          /\ caps[u] = NotBuilt

\* C21 as stated: no looper that was built has a looper anywhere below it
\* in the tree, and a script that puts a looper below a looper, at whatever
\* depth, has ended in the constructors with NestedLoopError.
C21_NoLooperBelowLooper ==
    /\ \A u \in Loopers : Below(u) \cap Loopers = {}
    /\ (\E u, c \in Units :
           /\ args.kind[u] = "Looper"
           /\ args.kind[c] = "Looper"
           /\ \E d \in Range(args.given[u]) :
                 c = d \/ (d \in DOMAIN args.given /\ c \in Range(args.given[d])))
          => (pc.at = "unbuilt" /\ err = "NestedLoopError")

C23_BroadcastAborts ==
    \A r \in Ix : Thrown(r) =>
        /\ err = log[r].ev
        /\ \A k \in Ix : k > r => log[k].t = "load" /\ log[k].by = User
        /\ \A i \in 1 .. r - 1 : (Broadcasted(i) /\ Open(i)) =>
              LET p == log[i].by
                  ev == log[i].ev
                  order == VisitOrder(p, ev)
                  start == BroadcastStart(i)
              IN \E n \in DOMAIN order :
                    /\ order[n] = log[i].u
                    /\ \A m \in 1 .. n - 1 :
                          \E a, b \in start + 1 .. i - 1 :
                              /\ a < b
                              /\ Is(a, "recv", ev, order[m])
                              /\ Is(b, "ret", ev, order[m])
                    /\ \A m \in n + 1 .. Len(order) :
                          ~\E a \in start + 1 .. Len(log) :
                              Is(a, "recv", ev, order[m])

\* C23 witness: in a broadcast over at least three children a child that
\* is neither the first nor the last in the order has raised
C23_Witness ==
    \E r, i \in Ix :
        /\ Thrown(r)
        /\ i < r
        /\ Broadcasted(i)
        /\ Open(i)
        /\ log[i].u = log[r].u
        /\ \E n \in DOMAIN VisitOrder(log[i].by, log[i].ev) :
              /\ VisitOrder(log[i].by, log[i].ev)[n] = log[i].u
              /\ 1 < n
              /\ n < Len(VisitOrder(log[i].by, log[i].ev))

\* C24: in a launch of a launcher set to resume, the launcher restores the
\* checkpoint once; when it begins, every unit has received SETUP and
\* returned from it and no unit has received SET or LAUNCH; and no unit
\* receives SET or LAUNCH unless the restoration was made before.
C24_RestoreBetween ==
    (args.mode = "launch" /\ Constructed) =>
        /\ Cardinality(Restorations) <= 1
        /\ Restorations # {} => caps[Root].resume_from # None
        /\ \A i \in Restorations :
              /\ \A u \in Units : \E j \in 1 .. i - 1 : Is(j, "ret", SETUP, u)
              /\ \A k \in Activations : k > i
        /\ (caps[Root].resume_from # None /\ Activations # {})
              => Restorations # {}

\* C24 witness: a launcher set to resume has restored the checkpoint, with
\* the states of its units, and has then run an epoch to its end
C24_Witness ==
    /\ args.mode = "launch"
    /\ pc.at = "done"
    /\ caps[Root].resume_from # None
    /\ \E i \in Restorations :
          /\ \E k \in Ix : k > i /\ log[k].t = "load" /\ log[k].by = Root
          /\ \E k \in Activations : k > i

\* C25: teardown. When Launcher.launch has returned, every dispatcher of
\* the tree has delivered DESTROY to each of its children once, in the
\* reverse of the order in which it delivered SETUP, which is an order of
\* ascending priority; every DESTROY was received after the last SET, LAUNCH
\* and RESET of the epochs had returned; the buffer has no launcher entry;
\* and no unit holds the accelerator.
C25_TeardownComplete ==
    (args.mode = "launch" /\ pc.at = "done") =>
        /\ \A d \in Dispatchers :
              /\ Deliveries(d, DESTROY) = Reverse(Deliveries(d, SETUP))
              /\ Deliveries(d, SETUP) = caps[d].capsules
              /\ \A i, j \in DOMAIN Deliveries(d, DESTROY) :
                    i < j => args.priority[Deliveries(d, DESTROY)[i]]
                               <= args.priority[Deliveries(d, DESTROY)[j]]
        /\ \A i, k \in Ix :
              (/\ log[i].t = "recv" /\ log[i].ev = DESTROY
               /\ log[k].ev \in {SET, LAUNCH, RESET} \/ log[k].t = "epoch")
                  => (k < i \/ log[k] = Entry("ret", LAUNCH, Root, User, log[k].x))
        /\ attrs.launcher = None
        /\ \A u \in Units : ~caps[u].accelerator

\* C25 witness: a launcher with at least two children, one of them a
\* dispatcher with children of its own, has returned after two epochs or
\* more, and stateful units were taken off the registry
C25_Witness ==
    /\ args.mode = "launch"
    /\ pc.at = "done"
    /\ Len(caps[Root].capsules) >= 2
    /\ caps[Root].num_epochs >= 2
    /\ \E d \in Dispatchers \ {Root} : Len(Deliveries(d, DESTROY)) >= 2
    /\ Len(Popped) >= 2

\* C26: the priority convention of the Checkpointer's documentation. Of two
\* children of one dispatcher, the one with the smaller priority value
\* receives every event first: each broadcast of a dispatcher visits its
\* children in ascending priority.
C26_SmallerFirst ==
    \A d \in Dispatchers : \A ev \in Events :
        LET del == Deliveries(d, ev)
            n == Len(args.given[d])
        IN \A i \in DOMAIN del :
               (i > 1 /\ (i - 1) % n # 0) =>
                   args.priority[del[i - 1]] <= args.priority[del[i]]

\* C27: dispatch is synchronous and depth-first. Between the call that a
\* dispatcher makes to a child and the return of that call, every event is
\* delivered to, and every return comes from, a unit below the child (or
\* the child, when it calls a handler of its own), so that the next sibling is called after the whole subtree of the child is
\* done; and while a dispatcher whose tree holds only dispatchers and plain
\* units handles an event, every unit below it receives the event once,
\* from its parent.
C27_DepthFirst ==
    \A i \in Ix :
        (log[i].t = "recv" /\ ~Open(i)) =>
            LET end == CallEnd(i)
                sub == Below(log[i].u)
            IN /\ \A k \in i + 1 .. end - 1 :
                     log[k].t \in {"recv", "ret"} =>
                         /\ log[k].u \in {log[i].u} \cup sub
                         /\ log[k].by \in {log[i].u} \cup sub
                         /\ log[k].u = log[i].u => log[k].by = log[i].u
               /\ PlainTree(log[i].u) =>
                     \A v \in sub :
                         \E k \in i + 1 .. end - 1 :
                             /\ Is(k, "recv", log[i].ev, v)
                             /\ v \in Range(caps[log[k].by].capsules)
                             /\ \A m \in i + 1 .. end - 1 :
                                   Is(m, "recv", log[i].ev, v) => m = k

\* C27 witness: a dispatcher with a dispatcher of two capsules as its first
\* child and a capsule as its second has handled LAUNCH: the two capsules
\* of the inner dispatcher received it before the second child did
C27_Witness ==
    /\ pc.at = "done"
    /\ caps[1].kind = "Dispatcher"
    /\ caps[1].capsules = <<3, 5>>
    /\ caps[3].kind = "Dispatcher"
    /\ Len(caps[3].capsules) = 2
    /\ \E i, j, k, m \in Ix :
          /\ i < j /\ j < k /\ k < m
          /\ Is(i, "recv", LAUNCH, 3) /\ Is(j, "ret", LAUNCH, caps[3].capsules[1])
          /\ Is(k, "ret", LAUNCH, caps[3].capsules[2])
          /\ Is(m, "recv", LAUNCH, 5)

\* the loopers whose handler of the event of the call i, made by the
\* launcher, was executed and has returned when the call returned
Executed(i) ==
    {k \in i .. CallEnd(i) :
        /\ log[k].t = "ret" /\ log[k].ev = log[i].ev
        /\ caps[log[k].u].kind = "Looper"
        /\ \E b \in i .. k : Is(b, "body", log[i].ev, log[k].u)}

\* C28: the looper entry of the buffer. When a SET that the launcher sent
\* to a child has returned, the buffer holds a looper entry with the repeats
\* and the tag of the looper whose set was executed last, and with
\* terminate false; when a RESET has returned in which the reset of a looper
\* was executed, the buffer holds no looper entry.
C28_SessionLifecycle ==
    \A i \in Ix :
        (/\ log[i].t = "recv" /\ log[i].by = Root /\ log[i].u # Root
         /\ log[i].ev \in {SET, RESET}
         /\ ~Open(i) /\ CallEnd(i) = Len(log)
         /\ Executed(i) # {}) =>
            LET l == log[Max(Executed(i))].u
            IN /\ log[i].ev = SET =>
                     attrs.looper = Some([repeats |-> Val(caps[l].repeats),
                                          terminate |-> FALSE,
                                          tag |-> caps[l].tag])
               /\ log[i].ev = RESET => attrs.looper = None

\* C29 as stated: once a child has voted to terminate in an iteration of a
\* looper, the looper begins no further iteration when the broadcast of
\* that iteration has ended.
C29_VoteStops ==
    \A c \in Checks :
        (\E v \in VotesBefore(c) : log[v].x = 1) => IterationsAfter(c) = {}

\* C29: cancellation between iterations. Every iteration of a looper that
\* ends delivered LAUNCH to all children of the looper, in their order, also
\* to those that come after a child that voted to terminate; the looper
\* reads the flag as the last vote of the iteration left it; and when it
\* reads true it begins no further iteration in that activation.
C29_CancelBetween ==
    \A c \in Checks :
        /\ Launched(c) = caps[log[c].u].capsules
        /\ VotesBefore(c) # {} => log[c].x = log[Max(VotesBefore(c))].x
        /\ log[c].x = 1 => IterationsAfter(c) = {}

\* C29 witness: in an activation with two repeats, a child voted to
\* terminate in the first iteration, a child after it received LAUNCH in
\* the same iteration, and the looper returned after that one iteration
C29_Witness ==
    \E c \in Checks : \E v \in VotesBefore(c) : \E k \in v + 1 .. c :
        /\ log[v].x = 1
        /\ log[c].x = 1
        /\ Is(k, "recv", LAUNCH, log[k].u) /\ log[k].by = log[c].u
        /\ log[k].u # log[v].u
        /\ log[IterationOf(c)].x = 0
        /\ caps[log[c].u].user_defined_repeats = Some(2)
        /\ \E r \in Ix : r > c /\ Is(r, "ret", LAUNCH, log[c].u)

\* C30: resume continuity. A checkpointer whose state was restored from
\* the checkpoint directory d, written by the activation that began with
\* index d, goes on with index d + 1: its activations after the restore
\* begin with the indices d + 1, d + 2, ..., each that returns has counted
\* one up, and each writes a snapshot exactly when its index plus one is a
\* multiple of the period, into the directory named by its index, as the
\* run that was not interrupted does.
C30_ResumeContinuity ==
    \A u \in Checkpointers :
        LoadsInto(u) # {} =>
            LET i == Max(LoadsInto(u))
                d == RestoredFrom(i)
                runs == RunsAfter(u, i)
            IN \A a \in runs :
                   /\ log[a].x = d + 1 + Cardinality({b \in runs : b < a})
                   /\ ReturnOf(a) # 0 =>
                         /\ log[ReturnOf(a)].x = log[a].x + 1
                         /\ Saved(a) <=> (log[a].x + 1) % Period(u) = 0
                         /\ Saved(a) => log[a + 1].x = log[a].x

\* C30 witness: a run that wrote the checkpoint 1 with period 2 was run
\* again and resumed from it; the checkpointer began its activations with
\* the indices 2 and 3 and wrote the checkpoint 3
C30_Witness ==
    /\ pc.at = "done"
    /\ \E u \in Checkpointers :
          /\ Period(u) = 2
          /\ LoadsInto(u) # {}
          /\ RestoredFrom(Max(LoadsInto(u))) = 1
          /\ {log[a].x : a \in RunsAfter(u, Max(LoadsInto(u)))} = {2, 3}
          /\ \E a \in RunsAfter(u, Max(LoadsInto(u))) :
                log[a].x = 3 /\ Saved(a) /\ log[a + 1].x = 3
          /\ caps[u].iter_idx = 4

\* C31: the epochs of a launch. The launcher begins the epochs start,
\* start + 1, ... in this order, each once, where start is 0 or the epoch
\* index that a restore loaded into the launcher; when the launch has
\* returned it has begun every epoch below num_epochs from start on; while
\* it calls set, launch and reset of its children the buffer and the
\* launcher show the index of the epoch begun last; no child is called
\* before an epoch has begun; and the launch that returns has delivered
\* DESTROY to every child also when it began no epoch.
C31_EpochRange ==
    args.mode = "launch" =>
        /\ \A j \in DOMAIN Epochs : Epochs[j] = StartEpoch + j - 1
        /\ pc.at = "done" =>
              /\ Len(Epochs) = IF StartEpoch >= args.num_epochs THEN 0
                                ELSE args.num_epochs - StartEpoch
              /\ Deliveries(Root, DESTROY) = Reverse(caps[Root].capsules)
        /\ pc.at \in {SET, LAUNCH, RESET} =>
              /\ Epochs # <<>>
              /\ Val(attrs.launcher).epoch_idx = Some(Epochs[Len(Epochs)])
              /\ caps[Root].epoch_idx = Epochs[Len(Epochs)]
        /\ EpochCalls # {} => Epochs # <<>>
        /\ \A k \in EpochCalls :
              \E e \in 1 .. k - 1 : log[e].t = "epoch"

\* C31 witness: a launcher whose state was restored from a checkpoint
\* written in epoch 1 has run the epoch 1 alone and has returned
C31_Witness ==
    /\ args.mode = "launch"
    /\ pc.at = "done"
    /\ LoadsInto(Root) # {}
    /\ StartEpoch = 1
    /\ args.num_epochs = 2
    /\ Epochs = <<1>>
    /\ EpochCalls # {}

\* C32: the batch of an iteration. A batch that a handler of LAUNCH finds
\* in the buffer during an iteration of a looper was put there by a dataset
\* during the same iteration; and the first child that a looper calls in an
\* iteration finds no batch.
C32_BatchOfIteration ==
    /\ \A k \in Sights : \A j \in IterationsAt(k) :
          Produced(Val(log[k].x), j, k) # {}
    /\ \A j \in Ix :
          (log[j].t = "iter" /\ j < Len(log) /\ log[j + 1].t = "see")
              => log[j + 1].x = None

\* C32 witness: in the second iteration of a looper a child found the batch
\* that a dataset had produced in that iteration, after a child had found
\* another batch in the first iteration
C32_Witness ==
    \E k, m \in Sights : \E j \in IterationsAt(k) :
        /\ m < j
        /\ log[j].x = 1
        /\ log[m].by = log[j].u
        /\ log[k].by = log[j].u
        /\ log[m].x # log[k].x
        /\ \E i \in IterationsAt(m) : log[i].u = log[j].u /\ log[i].x = 0

\* C33 as stated: when the SETUP of a pipeline has returned, the registry
\* holds what it held before, followed by the stateful units of the tree in
\* depth-first pre-order, and no unit that is not stateful.
C33_RegistryListsTree ==
    JustSetUp =>
        /\ accel.custom_objects = RegistryBefore \o StatefulPreOrder
        /\ \A u \in Units :
              ~caps[u].statefull => u \notin Range(accel.custom_objects)

\* C33: push order. When the SETUP of a pipeline has returned, and no
\* checkpointer was told to restore without the capsules, the registry
\* holds what it held before, followed by the stateful units of the tree in
\* depth-first pre-order (a dispatcher before its children, the children in
\* descending priority), and no unit that is not stateful.
C33_PushOrder ==
    (JustSetUp /\ ~PartialDirective) =>
        /\ accel.custom_objects = RegistryBefore \o StatefulPreOrder
        /\ \A u \in Units :
              ~caps[u].statefull => u \notin Range(accel.custom_objects)
        /\ \A i, j \in DOMAIN StatefulPreOrder :
              (/\ i < j
               /\ \E d \in Dispatchers :
                     {StatefulPreOrder[i], StatefulPreOrder[j]}
                         \subseteq Range(caps[d].capsules))
                  => args.priority[StatefulPreOrder[i]]
                       >= args.priority[StatefulPreOrder[j]]

\* C33 witness: a pipeline was set up on a registry that held two objects
\* of somebody else; a stateful looper and a stateful child of it have
\* registered, the looper first, and some unit is not stateful
C33_Witness ==
    /\ JustSetUp
    /\ args.pre # <<>>
    /\ Len(accel.custom_objects) >= Len(args.pre) + 3
    /\ \E l \in Loopers : \E c \in Range(caps[l].capsules) :
          \E i, j \in DOMAIN accel.custom_objects :
              /\ i < j
              /\ accel.custom_objects[i] = l
              /\ accel.custom_objects[j] = c
    /\ \E u \in Units : ~caps[u].statefull

C35_LoaderReleased ==
    \A u \in Datasets :
        (pc.at \in {"done", "down", "torn"} /\ err = NoErr
         /\ Returned(DESTROY, u)) =>
            \A i \in DOMAIN accel.dataloaders :
                ~(/\ accel.dataloaders[i].dataset = caps[u].dataset
                  /\ accel.dataloaders[i].id > Len(args.loaders))

\* C36: the priority sort is stable. Of two children of a composite that
\* have the same priority, the one listed first at construction receives
\* SETUP, SET, LAUNCH and RESET first in every round of calls the composite
\* makes, and receives DESTROY last.
C36_StableOrder ==
    \A i \in CompositeCalls :
        LET d == log[i].by
            given == args.given[d]
            peers == {j \in 1 .. i - 1 :
                         /\ log[j].by = d
                         /\ Is(j, "recv", log[i].ev, log[j].u)
                         /\ log[j].u \notin {d, log[i].u}
                         /\ caps[log[j].u].priority = caps[log[i].u].priority}
        IN peers # {} =>
              LET j == Max(peers)
                  began == {k \in j + 1 .. i - 1 :
                               \/ Is(k, "recv", log[i].ev, d)
                               \/ Is(k, "iter", log[i].ev, d)
                               \/ log[k].t = "epoch" /\ d = Root}
              IN began = {} =>
                    IF log[i].ev = DESTROY
                    THEN Pos(given, log[j].u) > Pos(given, log[i].u)
                    ELSE Pos(given, log[j].u) < Pos(given, log[i].u)

\* C36 witness: a launch has returned in which a composite, whose children
\* the sort reordered, delivered every event to two children of equal
\* priority
C36_Witness ==
    /\ args.mode = "launch"
    /\ pc.at = "done"
    /\ \E d \in Dispatchers : \E a, b \in Range(args.given[d]) :
          /\ a # b
          /\ caps[a].priority = caps[b].priority
          /\ caps[d].capsules # args.given[d]
          /\ \A ev \in Events : Received(ev, a) /\ Received(ev, b)

C38_LaterVoteCancels ==
    \A c \in Checks :
        LET votes == VotesBefore(c)
            k == log[IterationOf(c)].x
        IN (votes # {} /\ log[Max(votes)].x = 0) =>
              /\ log[c].x = 0
              /\ k + 1 < RepeatsOf(c) =>
                    /\ c < Len(log)
                    /\ Is(c + 1, "iter", LAUNCH, log[c].u)
                    /\ log[c + 1].x = k + 1

\* C38 witness: in one iteration a child voted to terminate, a child after
\* it voted terminate = false, and the looper went on to the next iteration
C38_Witness ==
    \E c \in Checks : \E v, w \in VotesBefore(c) :
        /\ v < w
        /\ log[v].x = 1
        /\ log[w].x = 0
        /\ w = Max(VotesBefore(c))
        /\ log[v].u # log[w].u
        /\ c < Len(log)
        /\ Is(c + 1, "iter", LAUNCH, log[c].u)
        /\ \E r \in Ix : r > c /\ Is(r, "ret", LAUNCH, log[c].u)

\* C39: an illegal teardown removes the entry it complains about. In every
\* step in which the DESTROY of a unit raises IllegalTeardownError, the
\* entry of the history before the raise is the pop by that unit of an
\* object that is not the unit; the registry after the step is the registry
\* before it without the objects popped in the step, so it is one entry
\* shorter than when the failing unit was called; and the object removed
\* last is no longer on the registry.
C39_TeardownPops ==
    [][\A r \in IllegalTeardowns(log', Len(log)) :
          /\ r > Len(log) + 1
          /\ log'[r - 1].t = "pop"
          /\ log'[r - 1].u = log'[r].u
          /\ log'[r - 1].x # log'[r].u
          /\ accel.custom_objects
                = accel'.custom_objects \o PoppedSince(log', Len(log))
          /\ PoppedSince(log', Len(log))[1] = log'[r - 1].x
          /\ log'[r - 1].x \notin Range(accel'.custom_objects)]_vars

\* C39 witness: the DESTROY of a unit popped another unit of the pipeline,
\* raised IllegalTeardownError, and left the registry with the units below
\* the removed one
C39_Witness ==
    /\ pc.at = "failed"
    /\ \E r \in IllegalTeardowns(log, 0) :
          /\ Popped = <<log[r - 1].x>>
          /\ log[r - 1].x \in Units \ {log[r].u}
          /\ Len(accel.custom_objects) >= 2
          /\ accel.custom_objects \o Popped = args.pre \o Pushed

\* C40 as stated: when the set, launch or reset of a child of the launcher
\* raises, the exception reaches the caller and no unit has received
\* DESTROY, nothing was popped from the registry and the registry holds
\* every unit that was pushed at SETUP, the buffer has its launcher entry,
\* and every unit holds the accelerator.
C40_NoTeardownOnFailure ==
    [][(pc.at \in {SET, LAUNCH, RESET} /\ pc'.at = "failed") =>
          /\ err' # NoErr
          /\ \A i \in DOMAIN log' : log'[i].ev # DESTROY /\ log'[i].t # "pop"
          /\ \A i \in DOMAIN log' :
                log'[i].t = "push" => log'[i].u \in Range(accel'.custom_objects)
          /\ attrs'.launcher # None
          /\ \A u \in Units : caps'[u].accelerator]_vars

\* C40: what holds in every launch. When the set, launch or reset of a
\* child of the launcher raises, no unit has received DESTROY, nothing was
\* popped, the registry is the one the failing call found, the buffer has
\* its launcher entry and every unit holds the accelerator; the registry
\* holds every unit pushed at SETUP if neither the launcher nor a
\* checkpointer was told to restore without the capsules.
C40_LeftAsFound ==
    [][(pc.at \in {SET, LAUNCH, RESET} /\ pc'.at = "failed") =>
          /\ err' # NoErr
          /\ \A i \in DOMAIN log' : log'[i].ev # DESTROY /\ log'[i].t # "pop"
          /\ accel'.custom_objects = accel.custom_objects
          /\ (/\ ~PartialDirective
              /\ caps[Root].resume_from = None \/ caps[Root].load_capsules) =>
                accel'.custom_objects = Pushed'
          /\ attrs'.launcher # None
          /\ \A u \in Units : caps'[u].accelerator]_vars

\* C40 witness: a launch with stateful units on the registry has failed in
\* a call the launcher made to a child in an epoch, with the exception of
\* a unit below that child
C40_Witness ==
    /\ args.mode = "launch"
    /\ pc.at = "failed"
    /\ Len(Epochs) >= 1
    /\ Len(accel.custom_objects) >= 3
    /\ ~DestroyStarted
    /\ \E r \in Ix : /\ Thrown(r)
                       /\ log[r].u \notin {Root} \cup Range(caps[Root].capsules)
                       /\ \E k \in 1 .. r : log[k].t = "epoch"

====
